---- MODULE Spec2Model ----
(***************************************************************************)
(* Sudoku puzzle engine: the backtracking filler, the solution counter,    *)
(* the two clue removers and the generate entry points of                  *)
(* utils/generator.py (SudokuGenerator) and domain/sudoku_game.py.         *)
(*                                                                         *)
(* The model is parametric in the side of a box.  The program's boxes are  *)
(* 3x3 (BOARD_SIZE = 9); with BOX_SIDE = 3 every definition below is the   *)
(* program's, literal for literal.  The checks run on the 2x2-box board    *)
(* (BOARD_SIZE = 4), where the clue-count literals of the program (17, 25, *)
(* 35 and the difficulty table) are replaced by the stand-ins given next   *)
(* to them.                                                                *)
(***************************************************************************)
EXTENDS Integers, Naturals, Sequences, FiniteSets, TLC

\* ------------------------------------------------------------------ bounds
\* Side of a box.  The program: 3 (the literal 3 of `row // 3`, `range(3)`).
BOX_SIDE == 2

\* ------------------------------------------------------- program constants
BOARD_SIZE == BOX_SIDE * BOX_SIDE

EMPTY == 0

Idx == 0 .. (BOARD_SIZE - 1)

Digits == 1 .. BOARD_SIZE

Cells == Idx \X Idx

NUM_CELLS == BOARD_SIZE * BOARD_SIZE

\* --------------------------------------------------------------- the grids
\* create_empty_board / _create_empty_board
EmptyBoard == [r \in Idx |-> [c \in Idx |-> EMPTY]]

\* board[row][col] = value
Place(b, row, col, value) == [b EXCEPT ![row][col] = value]

\* sum(1 for row in board for cell in row if cell != EMPTY)
ClueCount(b) == Cardinality({p \in Cells : b[p[1]][p[2]] # EMPTY})

\* -------------------------------------------------- grid safety primitives
\* SudokuGenerator._is_safe
GenIsSafe(b, row, col, num) ==
    LET box_row == (row \div BOX_SIDE) * BOX_SIDE
        box_col == (col \div BOX_SIDE) * BOX_SIDE
    IN  IF \E c \in Idx : b[row][c] = num
        THEN FALSE
        ELSE IF \E r \in Idx : b[r][col] = num
        THEN FALSE
        ELSE IF \E i, j \in 0 .. (BOX_SIDE - 1) : b[box_row + i][box_col + j] = num
        THEN FALSE
        ELSE TRUE

\* domain is_safe_in_row
is_safe_in_row(b, row, num) == ~ (\E c \in Idx : b[row][c] = num)

\* domain is_safe_in_column
is_safe_in_column(b, col, num) == ~ (num \in {b[r][col] : r \in Idx})

\* domain is_safe_in_box
is_safe_in_box(b, row, col, num) ==
    LET box_row == (row \div BOX_SIDE) * BOX_SIDE
        box_col == (col \div BOX_SIDE) * BOX_SIDE
    IN  ~ (\E i, j \in 0 .. (BOX_SIDE - 1) : b[box_row + i][box_col + j] = num)

\* domain is_safe
is_safe(b, row, col, num) ==
    /\ is_safe_in_row(b, row, num)
    /\ is_safe_in_column(b, col, num)
    /\ is_safe_in_box(b, row, col, num)

\* The safety predicate each implementation of the filler calls.
SafeOf(im, b, row, col, num) ==
    IF im = "utils" THEN GenIsSafe(b, row, col, num) ELSE is_safe(b, row, col, num)

\* The nested `for row ... for col ... if board[row][col] == EMPTY` scan:
\* the row-major positions of the empty cells, and the first of them.
EmptyCells(b) == {p \in Cells : b[p[1]][p[2]] = EMPTY}

RowMajor(p) == p[1] * BOARD_SIZE + p[2]

FirstEmpty(b) ==
    CHOOSE p \in EmptyCells(b) : \A q \in EmptyCells(b) : RowMajor(p) <= RowMajor(q)


\* ------------------------------------------------------------------- state
VARIABLES
    impl,           \* "utils" (SudokuGenerator) or "domain" (sudoku_game.py)
    pc,             \* the control point of the operation under way
    given,          \* the grid as it was passed to the operation
    board,          \* the working grid, mutated in place
    stack,          \* the live calls of the recursive filler, outermost first
    result,         \* what the operation returned: "none" (not yet), "True", "False"
    solution,       \* generate_puzzle's solution_board (NoGrid before the fill)
    target_clues,   \* the remover's target
    removed,        \* the remover's count of accepted removals
    attempts,       \* the remover's count of loop iterations
    err,            \* the exception the operation raised ("none" if none)
    difficulty,     \* generate_puzzle's difficulty argument ("none" if none)
    limit_arg,      \* the limit passed to _count_solutions
    solution_count, \* the count _count_solutions returned
    games,          \* MemoryGameRepository._games: game id -> stored GameState
    call,           \* the validator or service call under way: its name and arguments
    report,         \* what that call returned
    session,        \* the models.GameState object under test (NoSession before construction)
    scores,         \* Scoreboard.scores, the in-memory list
    file,           \* the JSON file at Scoreboard.storage_path (NoFile while it does not exist)
    threads         \* the repository call each thread is in, and where in it

vars == <<impl, pc, given, board, stack, result, solution,
          target_clues, removed, attempts, err, difficulty, limit_arg, solution_count,
          games, call, report, session, scores, file, threads>>

\* The state of the validator and of the game service; the generator, the
\* filler and the counter leave it alone.
ext == <<games, call, report>>

\* The state of models/game_state.py, models/scoreboard.py and of the
\* threads calling the repository; everything else leaves it alone.
models == <<session, scores, file, threads>>

\* No game session, no score, no score file, no thread in a call.
NoSession == [op |-> "none"]
NoFile == <<"absent">>
NoThreads == [t \in {} |-> <<>>]
ModelsInit ==
    /\ session = NoSession
    /\ scores = <<>>
    /\ file = NoFile
    /\ threads = NoThreads

\* No stored game, no call under way, nothing returned.
NoGames == [id \in {} |-> <<>>]
NoCall == [op |-> "none"]
NoReport == [op |-> "none"]

Impls == {"utils", "domain"}

\* No grid: the value of a grid variable before the grid is created.
NoGrid == <<>>

\* ----------------------------------------------------- backtracking filler
\* _fill_board_backtracking (utils) and fill_solution_board (domain) are the
\* same routine over their own safety predicate.  A live call is a frame
\* [row, col, cands]: the first empty cell its scan found and the candidates
\* its `for num in candidates` loop has not yet placed.  random.shuffle makes
\* every order of the candidates possible, so the next candidate is any
\* member of cands; one that fails the safety test is passed over by the `if`
\* without effect, so a step takes the next candidate that passes it on the
\* board as it then is, and the call is exhausted when none passes.

\* A 9x9 grid given as the set of its clues <<row, col, value>>.
GridOf(clues) ==
    [r \in Idx |-> [c \in Idx |->
        IF \E t \in clues : t[1] = r /\ t[2] = c
        THEN (CHOOSE t \in clues : t[1] = r /\ t[2] = c)[3]
        ELSE EMPTY]]

\* The grids the filler is run on: the empty board of generate_puzzle, a
\* partial grid with completions, one whose first empty cell has no
\* candidate, one that is exhausted only after backtracking, and one whose
\* first empty cell takes two values in turn while its second takes none.
FillInputs ==
    { EmptyBoard,
      GridOf({<<0, 0, 1>>, <<1, 2, 1>>, <<2, 1, 1>>}),
      GridOf({<<0, 0, 1>>, <<0, 1, 2>>, <<0, 2, 3>>, <<1, 3, 4>>}),
      GridOf({<<0, 0, 1>>, <<0, 1, 2>>, <<1, 0, 3>>, <<1, 1, 4>>,
              <<2, 2, 1>>, <<2, 3, 2>>, <<3, 2, 3>>, <<1, 3, 4>>}),
      GridOf({<<1, 0, 3>>, <<2, 1, 1>>, <<3, 1, 2>>, <<0, 3, 4>>}) }

\* The frame of a call whose candidates are range(1, BOARD_SIZE).
MutFrame(b) ==
    LET p == FirstEmpty(b)
    IN  [row |-> p[1], col |-> p[2], cands |-> 1 .. (BOARD_SIZE - 1)]

\* The frame of a call entered on board b.
Frame(b) ==
    LET p == FirstEmpty(b)
    IN  [row |-> p[1], col |-> p[2], cands |-> Digits]

Top == stack[Len(stack)]

\* The candidates of the innermost call that pass the safety test now.
SafeCands == {n \in Top.cands : SafeOf(impl, board, Top.row, Top.col, n)}

\* The outermost call: no empty cell, return True; else start on the first.
FillEnter ==
    /\ pc = "fill_call"
    /\ IF EmptyCells(board) = {}
       THEN /\ result' = "True"
            /\ pc' = "fill_done"
            /\ stack' = stack
       ELSE /\ stack' = <<Frame(board)>>
            /\ pc' = "fill_loop"
            /\ result' = result
    /\ UNCHANGED <<impl, given, board, solution, target_clues, removed, attempts, err, difficulty, limit_arg, solution_count, ext, models>>

\* board[row][col] = num, and the recursive call finds an empty cell.
FillPlace(num) ==
    /\ pc = "fill_loop"
    /\ num \in SafeCands
    /\ LET b == Place(board, Top.row, Top.col, num)
       IN  /\ EmptyCells(b) # {}
           /\ board' = b
           /\ stack' = Append([stack EXCEPT ![Len(stack)].cands = @ \ {num}], Frame(b))
    /\ UNCHANGED <<impl, pc, given, result, solution, target_clues, removed, attempts, err, difficulty, limit_arg, solution_count, ext, models>>

\* board[row][col] = num, and the recursive call finds no empty cell: it
\* returns True, and so does every call above it (`return True`).
FillComplete(num) ==
    /\ pc = "fill_loop"
    /\ num \in SafeCands
    /\ LET b == Place(board, Top.row, Top.col, num)
       IN  /\ EmptyCells(b) = {}
           /\ board' = b
    /\ stack' = <<>>
    /\ result' = "True"
    /\ pc' = "fill_done"
    /\ UNCHANGED <<impl, given, solution, target_clues, removed, attempts, err, difficulty, limit_arg, solution_count, ext, models>>

\* The same with the caller going on with its loop without resetting its
\* cell.
MutFillNoReset ==
    /\ pc = "fill_loop"
    /\ SafeCands = {}
    /\ Len(stack) > 1
    /\ stack' = SubSeq(stack, 1, Len(stack) - 1)
    /\ UNCHANGED <<impl, pc, given, board, result, solution, target_clues, removed, attempts, err, difficulty, limit_arg, solution_count, ext, models>>

\* An inner call has run out of candidates: `return False`; its caller
\* resets its own cell (`board[row][col] = EMPTY`) and goes on with its loop.
FillBacktrack ==
    /\ pc = "fill_loop"
    /\ SafeCands = {}
    /\ Len(stack) > 1
    /\ LET caller == stack[Len(stack) - 1]
       IN  board' = Place(board, caller.row, caller.col, EMPTY)
    /\ stack' = SubSeq(stack, 1, Len(stack) - 1)
    /\ UNCHANGED <<impl, pc, given, result, solution, target_clues, removed, attempts, err, difficulty, limit_arg, solution_count, ext, models>>

\* The outermost call has run out of candidates: the filler returns False.
FillFail ==
    /\ pc = "fill_loop"
    /\ SafeCands = {}
    /\ Len(stack) = 1
    /\ stack' = <<>>
    /\ result' = "False"
    /\ pc' = "fill_done"
    /\ UNCHANGED <<impl, given, board, solution, target_clues, removed, attempts, err, difficulty, limit_arg, solution_count, ext, models>>

FillInit ==
    /\ impl \in Impls
    /\ pc = "fill_call"
    /\ given \in FillInputs
    /\ board = given
    /\ stack = <<>>
    /\ result = "none"
    /\ solution = NoGrid
    /\ target_clues = 0
    /\ removed = 0
    /\ attempts = 0
    /\ err = "none"
    /\ difficulty = "none"
    /\ limit_arg = 0
    /\ solution_count = 0
    /\ games = NoGames
    /\ call = NoCall
    /\ report = NoReport
    /\ ModelsInit

FillNext ==
    \/ FillEnter
    \/ \E num \in Digits : FillPlace(num)
    \/ \E num \in Digits : FillComplete(num)
    \/ FillBacktrack
    \/ FillFail

SpecFill == FillInit /\ [][FillNext]_vars

\* -------------------------------------------------------- solution counter
\* SudokuGenerator._count_solutions: backtrack(count) threads the one-cell
\* list count[0] through the recursion; here each call returns its new value.
\* The cell a call fills is empty again when its loop tests the next num
\* (`board[row][col] = EMPTY`), so every num is tested on the board b.
RECURSIVE Backtrack(_, _, _), BacktrackLoop(_, _, _, _, _, _)

\* `for num in range(1, BOARD_SIZE + 1)`: count[0] after the iterations for
\* 1 .. num, n being its value when the iteration for num starts.
BacktrackLoop(b, row, col, num, count, limit) ==
    IF num = 0
    THEN count
    ELSE CHOOSE r \in
            { IF GenIsSafe(b, row, col, num)
              THEN Backtrack(Place(b, row, col, num), n, limit)
              ELSE n :
                n \in {BacktrackLoop(b, row, col, num - 1, count, limit)} } : TRUE

\* backtrack(count): p is the first empty cell the two `for` loops over row
\* and col come to.
Backtrack(b, count, limit) ==
    IF count >= limit
    THEN count
    ELSE IF EmptyCells(b) = {}
    THEN count + 1
    ELSE CHOOSE r \in
            { BacktrackLoop(b, p[1], p[2], BOARD_SIZE, count, limit) :
                p \in {FirstEmpty(b)} } : TRUE

\* _count_solutions(board, limit)
CountSolutions(b, limit) == Backtrack(b, 0, limit)

\* limit: int = 2
DEFAULT_LIMIT == 2

\* ensure_unique_solution(puzzle)
EnsureUniqueSolution(puzzle) == CountSolutions(puzzle, DEFAULT_LIMIT) = 1

\* ------------------------------------------------- grids the filler leaves
\* The grids _fill_board_backtracking can leave on returning True when run on
\* b: the call returns the result of the first candidate, in its shuffled
\* order, whose recursive call returns True, and any order is possible.
RECURSIVE FillOutcomes(_)
FillOutcomes(b) ==
    IF EmptyCells(b) = {}
    THEN {b}
    ELSE LET p == FirstEmpty(b)
         IN  UNION { FillOutcomes(Place(b, p[1], p[2], n)) :
                       n \in {m \in Digits : GenIsSafe(b, p[1], p[2], m)} }

\* The grids the filler can leave when run on the empty board.
FilledBoards == FillOutcomes(EmptyBoard)

\* ------------------------------------------------------ clue-count limits
\* The literals of the removers and of generate_puzzle.  On the 3x3-box
\* board they are the program's; the 2x2-box board has 16 cells, and the
\* stand-ins keep their order: MIN_CLUES <= EXPERT_LIMIT < NUM_CELLS.

\* `17 <= target_clues` (and `17 <= clues`)
MIN_CLUES == IF BOX_SIDE = 3 THEN 17 ELSE 9

\* `<= 81`
MAX_CLUES == IF BOX_SIDE = 3 THEN 81 ELSE NUM_CELLS

\* `if target_clues <= 25`: at or below it a removal is kept unverified.
EXPERT_LIMIT == IF BOX_SIDE = 3 THEN 25 ELSE 10

\* `max_attempts = cells_to_remove * 5`
ATTEMPT_FACTOR == 5

\* `clues: int = 35`
DEFAULT_CLUES == IF BOX_SIDE = 3 THEN 35 ELSE 12

\* config.DIFFICULTY_LEVELS: difficulty -> (min_clues, max_clues).  The
\* table is imported by utils/generator.py but is not among the sources;
\* the ranges are those of the generator's docstring.  On the 2x2-box board
\* the ranges keep their places about EXPERT_LIMIT: expert below it, hard
\* starting on it, medium and easy above it.
DIFFICULTY_LEVELS ==
    IF BOX_SIDE = 3
    THEN [easy |-> <<40, 45>>, medium |-> <<30, 35>>,
          hard |-> <<25, 28>>, expert |-> <<17, 20>>]
    ELSE [easy |-> <<13, 14>>, medium |-> <<12, 12>>,
          hard |-> <<10, 11>>, expert |-> <<9, 9>>]

\* ------------------------------------------------------------------ inputs
\* The cells random.randint / random.randrange pick from in the removers'
\* loops: the first PICK_SPAN cells in row-major order.
PICK_SPAN == 8

PickCells == {p \in Cells : RowMajor(p) < PICK_SPAN}

\* The solved grids generate_puzzle goes on with after the fill: those the
\* filler can leave that agree with the shifted-rows grid (row r is row 0
\* rotated by (r % side) * side + r / side) on all but the last FREE_TAIL
\* cells in row-major order.
FREE_TAIL == 7

PatternGrid ==
    [r \in Idx |-> [c \in Idx |->
        (((r % BOX_SIDE) * BOX_SIDE + (r \div BOX_SIDE) + c) % BOARD_SIZE) + 1]]

SolutionBoards ==
    {g \in FilledBoards :
        \A p \in Cells :
            RowMajor(p) < NUM_CELLS - FREE_TAIL => g[p[1]][p[2]] = PatternGrid[p[1]][p[2]]}

\* The difficulty arguments: the configured ones and one that is not.
DifficultyInputs == {"easy", "medium", "hard", "expert", "impossible"}

\* The targets of a direct call of a remover, in and out of range.
TargetInputs == {MIN_CLUES - 1, MAX_CLUES - 2, MAX_CLUES, MAX_CLUES + 1}

\* The grids of a direct call of a remover: the empty board (as in
\* test_remove_clues_with_invalid_target) and solved grids.
RemoveInputs == {EmptyBoard} \cup SolutionBoards

\* The clue counts passed to domain generate_puzzle, in and out of range.
ClueInputs == {MIN_CLUES - 1, MIN_CLUES, DEFAULT_CLUES, MAX_CLUES - 2, MAX_CLUES, MAX_CLUES + 1}

\* `17 <= target_clues <= 81`
InClueRange(n) == MIN_CLUES <= n /\ n <= MAX_CLUES

\* cells_to_remove = BOARD_SIZE * BOARD_SIZE - target_clues
CellsToRemove == NUM_CELLS - target_clues

\* max_attempts = cells_to_remove * 5
MaxAttempts == CellsToRemove * ATTEMPT_FACTOR

\* --------------------------------------------- SudokuGenerator (utils)
\* generate_puzzle(difficulty) with a difficulty that is not configured.
GenGenerateInvalid(d) ==
    /\ pc = "idle" /\ impl = "utils"
    /\ d \notin DOMAIN DIFFICULTY_LEVELS
    /\ difficulty' = d
    /\ err' = "ValueError"
    /\ pc' = "raised"
    /\ UNCHANGED <<impl, given, board, stack, result, solution,
                   target_clues, removed, attempts, limit_arg, solution_count, ext, models>>

\* generate_puzzle(difficulty) up to the first test of the remover's loop:
\* the target is drawn from the difficulty's range, the solution board is
\* created and filled, the puzzle board is its deep copy, and the remover
\* checks its target and sets its counters.  A ValueError of the remover
\* would leave generate_puzzle as a PuzzleGenerationError.
GenGenerate(d, target, filled) ==
    /\ pc = "idle" /\ impl = "utils"
    /\ d \in DOMAIN DIFFICULTY_LEVELS
    /\ target \in DIFFICULTY_LEVELS[d][1] .. DIFFICULTY_LEVELS[d][2]
    /\ difficulty' = d
    /\ IF FilledBoards = {}
       THEN /\ err' = "PuzzleGenerationError"
            /\ pc' = "raised"
            /\ UNCHANGED <<board, solution, target_clues>>
       ELSE /\ filled \in SolutionBoards
            /\ solution' = filled
            /\ board' = filled
            /\ target_clues' = target
            /\ IF ~ InClueRange(target)
               THEN /\ err' = "PuzzleGenerationError"
                    /\ pc' = "raised"
               ELSE /\ err' = err
                    /\ pc' = "gen_remove"
    /\ removed' = 0
    /\ attempts' = 0
    /\ UNCHANGED <<impl, given, stack, result, limit_arg, solution_count, ext, models>>

\* _remove_clues_with_unique_solution(board, target) accepting any target of
\* at least 17.
MutGenRemoveCall(b, target) ==
    /\ pc = "idle" /\ impl = "utils"
    /\ given' = b
    /\ board' = b
    /\ target_clues' = target
    /\ IF ~ (MIN_CLUES <= target)
       THEN /\ err' = "ValueError"
            /\ pc' = "raised"
       ELSE /\ err' = err
            /\ pc' = "gen_remove"
    /\ removed' = 0
    /\ attempts' = 0
    /\ UNCHANGED <<impl, stack, result, solution, difficulty, limit_arg, solution_count, ext, models>>

\* _remove_clues_with_unique_solution(board, target) called on its own, up
\* to the first test of its loop.  board is the caller's grid itself.
GenRemoveCall(b, target) ==
    /\ pc = "idle" /\ impl = "utils"
    /\ given' = b
    /\ board' = b
    /\ target_clues' = target
    /\ IF ~ InClueRange(target)
       THEN /\ err' = "ValueError"
            /\ pc' = "raised"
       ELSE /\ err' = err
            /\ pc' = "gen_remove"
    /\ removed' = 0
    /\ attempts' = 0
    /\ UNCHANGED <<impl, stack, result, solution, difficulty, limit_arg, solution_count, ext, models>>

\* The loop's iteration with a rejected removal left cleared.
MutNoRestore(row, col) ==
    /\ pc = "gen_remove"
    /\ removed < CellsToRemove /\ attempts < MaxAttempts
    /\ IF board[row][col] # EMPTY
       THEN LET cleared == Place(board, row, col, EMPTY)
            IN  IF target_clues <= EXPERT_LIMIT
                THEN /\ board' = cleared
                     /\ removed' = removed + 1
                ELSE IF EnsureUniqueSolution(cleared)
                THEN /\ board' = cleared
                     /\ removed' = removed + 1
                ELSE /\ board' = cleared
                     /\ removed' = removed
       ELSE UNCHANGED <<board, removed>>
    /\ attempts' = attempts + 1
    /\ UNCHANGED <<impl, pc, given, stack, result, solution, target_clues, err, difficulty, limit_arg, solution_count, ext, models>>

\* The loop's iteration with `attempts += 1` inside `if board[row][col] != EMPTY`.
MutAttemptsInsideIf(row, col) ==
    /\ pc = "gen_remove"
    /\ removed < CellsToRemove /\ attempts < MaxAttempts
    /\ IF board[row][col] # EMPTY
       THEN LET cleared == Place(board, row, col, EMPTY)
            IN  /\ IF target_clues <= EXPERT_LIMIT
                   THEN /\ board' = cleared
                        /\ removed' = removed + 1
                   ELSE IF EnsureUniqueSolution(cleared)
                   THEN /\ board' = cleared
                        /\ removed' = removed + 1
                   ELSE /\ board' = board
                        /\ removed' = removed
                /\ attempts' = attempts + 1
       ELSE UNCHANGED <<board, removed, attempts>>
    /\ UNCHANGED <<impl, pc, given, stack, result, solution, target_clues, err, difficulty, limit_arg, solution_count, ext, models>>

\* The loop's iteration with `removed += 1` on every filled cell drawn,
\* kept or restored.
MutCountsRejected(row, col) ==
    /\ pc = "gen_remove"
    /\ removed < CellsToRemove /\ attempts < MaxAttempts
    /\ IF board[row][col] # EMPTY
       THEN LET cleared == Place(board, row, col, EMPTY)
            IN  IF target_clues <= EXPERT_LIMIT
                THEN /\ board' = cleared
                     /\ removed' = removed + 1
                ELSE IF EnsureUniqueSolution(cleared)
                THEN /\ board' = cleared
                     /\ removed' = removed + 1
                ELSE /\ board' = board
                     /\ removed' = removed + 1
       ELSE UNCHANGED <<board, removed>>
    /\ attempts' = attempts + 1
    /\ UNCHANGED <<impl, pc, given, stack, result, solution, target_clues, err, difficulty, limit_arg, solution_count, ext, models>>

\* The loop's iteration when puzzle_board is solution_board itself
\* (`puzzle_board = solution_board`, no deepcopy).
MutAliasedSolution(row, col) ==
    /\ pc = "gen_remove"
    /\ removed < CellsToRemove /\ attempts < MaxAttempts
    /\ IF board[row][col] # EMPTY
       THEN LET cleared == Place(board, row, col, EMPTY)
            IN  IF target_clues <= EXPERT_LIMIT
                THEN /\ board' = cleared
                     /\ removed' = removed + 1
                ELSE IF EnsureUniqueSolution(cleared)
                THEN /\ board' = cleared
                     /\ removed' = removed + 1
                ELSE /\ board' = board
                     /\ removed' = removed
       ELSE UNCHANGED <<board, removed>>
    /\ solution' = IF solution = NoGrid THEN solution ELSE board'
    /\ attempts' = attempts + 1
    /\ UNCHANGED <<impl, pc, given, stack, result, target_clues, err, difficulty, limit_arg, solution_count, ext, models>>

\* One iteration of the remover's loop, with (row, col) the cell drawn:
\* a filled cell is cleared; at or below EXPERT_LIMIT the removal is kept,
\* above it the removal is kept if the puzzle still has one solution and
\* the saved value is put back if not; the attempt is counted either way.
GenRemoveStep(row, col) ==
    /\ pc = "gen_remove"
    /\ removed < CellsToRemove /\ attempts < MaxAttempts
    /\ IF board[row][col] # EMPTY
       THEN LET cleared == Place(board, row, col, EMPTY)
            IN  IF target_clues <= EXPERT_LIMIT
                THEN /\ board' = cleared
                     /\ removed' = removed + 1
                ELSE IF EnsureUniqueSolution(cleared)
                THEN /\ board' = cleared
                     /\ removed' = removed + 1
                ELSE /\ board' = board
                     /\ removed' = removed
       ELSE UNCHANGED <<board, removed>>
    /\ attempts' = attempts + 1
    /\ UNCHANGED <<impl, pc, given, stack, result, solution, target_clues, err, difficulty, limit_arg, solution_count, ext, models>>

\* The loop's test fails: the remover returns (and generate_puzzle returns
\* puzzle_board, solution_board).
GenRemoveReturn ==
    /\ pc = "gen_remove"
    /\ ~ (removed < CellsToRemove /\ attempts < MaxAttempts)
    /\ pc' = "returned"
    /\ UNCHANGED <<impl, given, board, stack, result, solution,
                   target_clues, removed, attempts, err, difficulty, limit_arg, solution_count, ext, models>>

GenNext ==
    \/ \E d \in DifficultyInputs : GenGenerateInvalid(d)
    \/ \E d \in DifficultyInputs, t \in 0 .. NUM_CELLS, g \in SolutionBoards :
          GenGenerate(d, t, g)
    \/ \E b \in RemoveInputs, t \in TargetInputs : GenRemoveCall(b, t)
    \/ \E p \in PickCells : GenRemoveStep(p[1], p[2])
    \/ GenRemoveReturn

\* ------------------------------------------------- domain/sudoku_game.py
\* generate_puzzle(clues) with a clue count out of range.
DomGenerateInvalid(clues) ==
    /\ pc = "idle" /\ impl = "domain"
    /\ ~ InClueRange(clues)
    /\ target_clues' = clues
    /\ err' = "ValueError"
    /\ pc' = "raised"
    /\ UNCHANGED <<impl, given, board, stack, result, solution,
                   removed, attempts, difficulty, limit_arg, solution_count, ext, models>>

\* generate_puzzle(clues) up to the first test of remove_clues' loop: the
\* solution board is created and filled, the puzzle board is a copy of its
\* rows, and remove_clues checks the count again and sets its counter.
DomGenerate(clues, filled) ==
    /\ pc = "idle" /\ impl = "domain"
    /\ InClueRange(clues)
    /\ target_clues' = clues
    /\ IF FilledBoards = {}
       THEN /\ err' = "PuzzleGenerationError"
            /\ pc' = "raised"
            /\ UNCHANGED <<board, solution>>
       ELSE /\ filled \in SolutionBoards
            /\ solution' = filled
            /\ board' = filled
            /\ err' = err
            /\ pc' = "dom_remove"
    /\ removed' = 0
    /\ UNCHANGED <<impl, given, stack, result, attempts, difficulty, limit_arg, solution_count, ext, models>>

\* remove_clues(board, target_clues) called on its own.
DomRemoveCall(b, target) ==
    /\ pc = "idle" /\ impl = "domain"
    /\ given' = b
    /\ board' = b
    /\ target_clues' = target
    /\ IF ~ InClueRange(target)
       THEN /\ err' = "ValueError"
            /\ pc' = "raised"
       ELSE /\ err' = err
            /\ pc' = "dom_remove"
    /\ removed' = 0
    /\ UNCHANGED <<impl, stack, result, solution, attempts, difficulty, limit_arg, solution_count, ext, models>>

\* One iteration of remove_clues' loop that leaves `removed` as it was.
MutDomNoCount(row, col) ==
    /\ pc = "dom_remove"
    /\ removed < CellsToRemove
    /\ IF board[row][col] # EMPTY
       THEN /\ board' = Place(board, row, col, EMPTY)
            /\ removed' = removed
       ELSE UNCHANGED <<board, removed>>
    /\ UNCHANGED <<impl, pc, given, stack, result, solution,
                   target_clues, attempts, err, difficulty, limit_arg, solution_count, ext, models>>

\* One iteration of remove_clues' loop, with (row, col) the cell drawn.
DomRemoveStep(row, col) ==
    /\ pc = "dom_remove"
    /\ removed < CellsToRemove
    /\ IF board[row][col] # EMPTY
       THEN /\ board' = Place(board, row, col, EMPTY)
            /\ removed' = removed + 1
       ELSE UNCHANGED <<board, removed>>
    /\ UNCHANGED <<impl, pc, given, stack, result, solution,
                   target_clues, attempts, err, difficulty, limit_arg, solution_count, ext, models>>

\* The loop's test fails: remove_clues returns (and generate_puzzle returns
\* puzzle_board, solution_board).
DomRemoveReturn ==
    /\ pc = "dom_remove"
    /\ ~ (removed < CellsToRemove)
    /\ pc' = "returned"
    /\ UNCHANGED <<impl, given, board, stack, result, solution,
                   target_clues, removed, attempts, err, difficulty, limit_arg, solution_count, ext, models>>

DomNext ==
    \/ \E n \in ClueInputs : DomGenerateInvalid(n)
    \/ \E n \in ClueInputs, g \in SolutionBoards : DomGenerate(n, g)
    \/ \E b \in RemoveInputs, t \in TargetInputs : DomRemoveCall(b, t)
    \/ \E p \in PickCells : DomRemoveStep(p[1], p[2])
    \/ DomRemoveReturn

\* ------------------------------------------------------ the generate specs
\* No call made yet on either implementation.
Init ==
    /\ impl \in Impls
    /\ pc = "idle"
    /\ given = NoGrid
    /\ board = NoGrid
    /\ stack = <<>>
    /\ result = "none"
    /\ solution = NoGrid
    /\ target_clues = 0
    /\ removed = 0
    /\ attempts = 0
    /\ err = "none"
    /\ difficulty = "none"
    /\ limit_arg = 0
    /\ solution_count = 0
    /\ games = NoGames
    /\ call = NoCall
    /\ report = NoReport
    /\ ModelsInit

Next == GenNext \/ DomNext

Spec == Init /\ [][Next]_vars

\* SudokuGenerator alone, as a running program: while an iteration of the
\* removal loop, or its return, can change the state, one is eventually taken.
GenInit == Init /\ impl = "utils"

GenLoopRuns ==
    /\ pc = "gen_remove"
    /\ \/ \E p \in PickCells : GenRemoveStep(p[1], p[2])
       \/ GenRemoveReturn

FairSpecGen ==
    /\ GenInit
    /\ [][GenNext]_vars
    /\ WF_vars(GenLoopRuns)

\* The domain implementation alone, with the picker of remove_clues fair:
\* while a filled cell can be drawn, one eventually is.
DomInit == Init /\ impl = "domain"

DomDrawsFilled ==
    /\ pc = "dom_remove"
    /\ \E p \in PickCells : board[p[1]][p[2]] # EMPTY /\ DomRemoveStep(p[1], p[2])

FairSpecDom ==
    /\ DomInit
    /\ [][DomNext]_vars
    /\ WF_vars(DomDrawsFilled)
    /\ WF_vars(DomRemoveReturn)

\* ------------------------------------------------------------ solved grids
\* Every row, every column and every box holds each of 1..BOARD_SIZE.
IsSolved(b) ==
    /\ \A r \in Idx : {b[r][c] : c \in Idx} = Digits
    /\ \A c \in Idx : {b[r][c] : r \in Idx} = Digits
    /\ \A br, bc \in 0 .. (BOX_SIDE - 1) :
          {b[br * BOX_SIDE + i][bc * BOX_SIDE + j] : i, j \in 0 .. (BOX_SIDE - 1)} = Digits

\* C1: started on the all-empty grid, the filler (either implementation)
\* returns True whatever the shuffle orders, and every row, column and box of
\* the grid it leaves is a permutation of 1..BOARD_SIZE.
C1_FillFromEmpty ==
    (pc = "fill_done" /\ given = EmptyBoard) =>
        (result = "True" /\ IsSolved(board))

\* C1 witness: a fill of the empty grid has returned True under a shuffle
\* that put the largest candidate first at the first cell.
C1_Witness ==
    /\ pc = "fill_done"
    /\ given = EmptyBoard
    /\ result = "True"
    /\ board[0][0] = BOARD_SIZE

\* The solved grids that agree with b on every non-empty cell of b.
Completions(b) ==
    {g \in FilledBoards :
        \A p \in Cells : b[p[1]][p[2]] # EMPTY => g[p[1]][p[2]] = b[p[1]][p[2]]}

\* ------------------------------------------------- the counter on its own
\* Largest limit passed to _count_solutions.
MAX_LIMIT == 3

\* b with the cells of cs emptied.
Blanked(b, cs) ==
    [r \in Idx |-> [c \in Idx |-> IF <<r, c>> \in cs THEN EMPTY ELSE b[r][c]]]

\* The puzzles a remover can hold: a solved grid less some drawn cells.
PuzzleInputs == {Blanked(g, cs) : g \in SolutionBoards, cs \in SUBSET PickCells}

\* The same with the last cell overwritten by the value of the cell on its
\* left: grids whose clues break the row rule.
BrokenInputs ==
    {Place(b, BOARD_SIZE - 1, BOARD_SIZE - 1, b[BOARD_SIZE - 1][BOARD_SIZE - 2]) :
        b \in PuzzleInputs}

\* The grids passed to _count_solutions and ensure_unique_solution.
CountInputs == {EmptyBoard} \cup PuzzleInputs \cup BrokenInputs

\* _count_solutions(board, limit): backtrack(count) runs and count[0] is
\* returned; the board is left as it was passed.
CountCall ==
    /\ pc = "count_call"
    /\ solution_count' = CountSolutions(board, limit_arg)
    /\ pc' = "count_returned"
    /\ UNCHANGED <<impl, given, board, stack, result, solution, target_clues,
                   removed, attempts, err, difficulty, limit_arg, ext, models>>

\* ensure_unique_solution(puzzle): the copy is counted with the default
\* limit and the result is `solution_count == 1`.
EnsureCall ==
    /\ pc = "count_call"
    /\ limit_arg = DEFAULT_LIMIT
    /\ solution_count' = CountSolutions(board, DEFAULT_LIMIT)
    /\ result' = IF EnsureUniqueSolution(board) THEN "True" ELSE "False"
    /\ pc' = "ensure_returned"
    /\ UNCHANGED <<impl, given, board, stack, solution, target_clues,
                   removed, attempts, err, difficulty, limit_arg, ext, models>>

CountInit ==
    /\ impl = "utils"
    /\ pc = "count_call"
    /\ given \in CountInputs
    /\ board = given
    /\ stack = <<>>
    /\ result = "none"
    /\ solution = NoGrid
    /\ target_clues = 0
    /\ removed = 0
    /\ attempts = 0
    /\ err = "none"
    /\ difficulty = "none"
    /\ limit_arg \in 0 .. MAX_LIMIT
    /\ solution_count = 0
    /\ games = NoGames
    /\ call = NoCall
    /\ report = NoReport
    /\ ModelsInit

CountNext == CountCall \/ EnsureCall

SpecCount == CountInit /\ [][CountNext]_vars

\* min(a, b)
Min(a, b) == IF a <= b THEN a ELSE b

\* C10 (as claimed): _count_solutions(grid, limit) returns min(limit, N),
\* N the number of solved grids that agree with the grid's non-empty cells:
\* 0 when there is none, 1 when there is one, limit when there are limit or
\* more; ensure_unique_solution answers whether N is 1.
C10_CountIsMinLimit ==
    /\ pc = "count_returned" =>
          solution_count = Min(limit_arg, Cardinality(Completions(given)))
    /\ pc = "ensure_returned" =>
          (result = "True" <=> Cardinality(Completions(given)) = 1)

\* ------------------------------------------------------- generated puzzles
\* generate_puzzle (of either implementation) is past its fill.
Generating == solution # NoGrid

\* The remover runs, or has run, on a full solved grid: the copy made by
\* generate_puzzle or a solved grid passed to the remover directly.
OnSolvedGrid ==
    /\ pc \in {"gen_remove", "dom_remove", "returned"}
    /\ \/ Generating
       \/ given # NoGrid /\ IsSolved(given)

\* C2: from the fill of generate_puzzle on (either implementation), so after
\* every iteration of the clue-removal loop and at the return, every
\* non-zero cell of the puzzle grid equals the same cell of the solution
\* grid, and the solution grid is a full solved grid.
C2_PuzzleSubsetOfSolution ==
    Generating =>
        /\ IsSolved(solution)
        /\ \A p \in Cells :
              board[p[1]][p[2]] # EMPTY => board[p[1]][p[2]] = solution[p[1]][p[2]]

\* C2 witness: generate_puzzle has returned a puzzle with cells removed.
C2_Witness ==
    /\ Generating
    /\ pc = "returned"
    /\ ClueCount(board) < NUM_CELLS
    /\ ClueCount(solution) = NUM_CELLS

\* C3: a puzzle SudokuGenerator.generate_puzzle returns for the easy or the
\* medium tier has exactly one solution: the counter run with limit 2 gives
\* 1, and exactly one solved grid agrees with its clues.
C3_EasyMediumUnique ==
    (impl = "utils" /\ pc = "returned" /\ difficulty \in {"easy", "medium"}) =>
        /\ CountSolutions(board, DEFAULT_LIMIT) = 1
        /\ Cardinality(Completions(board)) = 1

\* C3 witness: an easy or medium puzzle was returned after a removal was
\* rejected (more attempts on filled cells than removals) or the cap was hit.
C3_Witness ==
    /\ impl = "utils" /\ pc = "returned" /\ difficulty \in {"easy", "medium"}
    /\ removed < CellsToRemove
    /\ \E p \in PickCells :
          /\ board[p[1]][p[2]] # EMPTY
          /\ ~ EnsureUniqueSolution(Place(board, p[1], p[2], EMPTY))

\* C4 (as claimed): a puzzle domain generate_puzzle returns for the default
\* clue count has exactly one solution.
C4_DomainUnique ==
    (impl = "domain" /\ pc = "returned" /\ Generating /\ target_clues = DEFAULT_CLUES) =>
        CountSolutions(board, DEFAULT_LIMIT) = 1

\* The remover verifies every removal: target_clues > 25.
Strict == target_clues > EXPERT_LIMIT

CapStoppedEarly == attempts >= MaxAttempts /\ removed < CellsToRemove

\* C6: at the head of every iteration of SudokuGenerator's removal loop run
\* on a solved grid, and at its return, the number of non-zero cells is the
\* cell count minus the accepted removals and is at least target_clues, in
\* every tier; the returned puzzle has more clues than the target exactly
\* when the attempt cap stopped the loop early.
C6_ClueCountInvariant ==
    (impl = "utils" /\ OnSolvedGrid) =>
        /\ ClueCount(board) = NUM_CELLS - removed
        /\ ClueCount(board) >= target_clues
        /\ pc = "returned" => (ClueCount(board) > target_clues <=> CapStoppedEarly)

\* C6 witness: a best-effort run returned short of its target at the cap.
C6_Witness ==
    /\ impl = "utils" /\ OnSolvedGrid /\ pc = "returned"
    /\ ~ Strict
    /\ CapStoppedEarly
    /\ ClueCount(board) > target_clues
    /\ removed > 0

\* C7: SudokuGenerator's removal loop always ends: every iteration adds one
\* to the attempt count, whatever the cell drawn, the count never passes
\* 5 x (cells - target_clues), at the cap the loop can only return, and a
\* loop once entered leads to the return.
C7_AttemptsCapped ==
    /\ [][ pc = "gen_remove" =>
             /\ attempts <= ATTEMPT_FACTOR * (NUM_CELLS - target_clues)
             /\ pc' = "gen_remove" => attempts' = attempts + 1
             /\ attempts = ATTEMPT_FACTOR * (NUM_CELLS - target_clues) => pc' = "returned"
         ]_vars
    /\ (pc = "gen_remove") ~> (pc = "returned")

\* C7 witness: the loop is at its cap, short of the target, in a strict
\* run on a solved grid whose attempts were empty cells, rejections and
\* accepted removals.
C7_Witness ==
    /\ pc = "gen_remove" /\ OnSolvedGrid /\ Strict
    /\ attempts = MaxAttempts
    /\ removed < CellsToRemove
    /\ removed > 0

\* C8: domain generate_puzzle(n), n in range, returns once its fill is done,
\* given a picker that keeps drawing filled cells, and the puzzle returned
\* has exactly n non-zero cells.
C8_DomainTerminatesExact ==
    /\ [](IF pc = "returned" /\ Generating THEN ClueCount(board) = target_clues ELSE TRUE)
    /\ (pc = "dom_remove" /\ Generating) ~> (pc = "returned")

\* C8 witness: domain generate_puzzle returned for the smallest count.
C8_Witness ==
    /\ impl = "domain" /\ pc = "returned" /\ Generating
    /\ target_clues = MIN_CLUES
    /\ ClueCount(board) = MIN_CLUES

\* The call made had an argument out of range: a difficulty that is not
\* configured, or (the calls with a clue count) a count outside [17, 81].
InvalidArgument ==
    /\ pc # "idle"
    /\ \/ difficulty \notin ({"none"} \cup DOMAIN DIFFICULTY_LEVELS)
       \/ difficulty = "none" /\ ~ InClueRange(target_clues)

\* C9: a call with an argument out of range raises ValueError with no grid
\* created (generate_puzzle) and the passed grid as it was (the removers).
C9_InvalidArgumentRaisesFirst ==
    InvalidArgument =>
        /\ err = "ValueError"
        /\ pc = "raised"
        /\ solution = NoGrid
        /\ board = given

\* C9 witness: a remover turned down a count above the cell count that was
\* passed with a solved grid.
C9_Witness ==
    /\ InvalidArgument
    /\ err = "ValueError"
    /\ target_clues > MAX_CLUES
    /\ given # NoGrid /\ IsSolved(given)

\* ===================================================== utils/validator.py
\* The state of the generator, the filler and the counter; the validator and
\* the game service leave it alone, but for the grid `board` they are passed.
core == <<impl, pc, given, stack, result, solution, target_clues, removed,
          attempts, err, difficulty, limit_arg, solution_count>>

\* The cells in the order `for row in range(BOARD_SIZE): for col in
\* range(BOARD_SIZE)` visits them.
CellSeq == [k \in 1 .. NUM_CELLS |-> <<(k - 1) \div BOARD_SIZE, (k - 1) % BOARD_SIZE>>]

\* The elements of a list.
Range(f) == {f[k] : k \in DOMAIN f}

\* list.index(num) of a row or column given as a function of 0 .. BOARD_SIZE-1:
\* the first position holding num.
IndexOf(f, num) == CHOOSE c \in Idx : f[c] = num /\ \A d \in Idx : d < c => f[d] # num

\* MoveValidationResult(is_valid=True, errors=[]) after __post_init__.
NewMoveResult ==
    [is_valid |-> TRUE, errors |-> <<>>, conflicts |-> <<>>, conflict_type |-> "None"]

\* `if num in board[row]`: the row check of is_valid_move.
RowCheck(b, row, col, num, r) ==
    IF \E c \in Idx : b[row][c] = num
    THEN [r EXCEPT !.is_valid = FALSE,
                   !.errors = Append(@, <<"already exists in row", num, row>>),
                   !.conflict_type = "row",
                   !.conflicts = Append(@, <<row, IndexOf(b[row], num)>>)]
    ELSE r

\* `if num in column`: the column check of is_valid_move.
ColumnCheck(b, row, col, num, r) ==
    LET column == [x \in Idx |-> b[x][col]]
    IN  IF \E x \in Idx : column[x] = num
        THEN [r EXCEPT !.conflict_type = IF r.is_valid THEN "column" ELSE @,
                       !.is_valid = FALSE,
                       !.errors = Append(@, <<"already exists in column", num, col>>),
                       !.conflicts = Append(@, <<IndexOf(column, num), col>>)]
        ELSE r

\* The box check of is_valid_move: `for i in range(3): for j in range(3)`,
\* the result after the first k cells of the box.
RECURSIVE BoxCheck(_, _, _, _, _, _)
BoxCheck(b, row, col, num, k, r) ==
    IF k = 0
    THEN r
    ELSE LET box_row == (row \div BOX_SIDE) * BOX_SIDE
             box_col == (col \div BOX_SIDE) * BOX_SIDE
             box_num == (row \div BOX_SIDE) * BOX_SIDE + (col \div BOX_SIDE)
             cell_row == box_row + ((k - 1) \div BOX_SIDE)
             cell_col == box_col + ((k - 1) % BOX_SIDE)
             q == BoxCheck(b, row, col, num, k - 1, r)
         IN  IF b[cell_row][cell_col] = num
             THEN [q EXCEPT !.conflict_type = IF q.is_valid THEN "box" ELSE @,
                            !.is_valid = FALSE,
                            !.errors = Append(@, <<"already exists in 3x3 box", num, box_num>>),
                            !.conflicts = Append(@, <<cell_row, cell_col>>)]
             ELSE q

\* The same with the position test after the number test.
MutIsValidMove(b, row, col, num) ==
    IF ~ (1 <= num /\ num <= BOARD_SIZE)
    THEN [NewMoveResult EXCEPT !.is_valid = FALSE,
                               !.errors = Append(@, <<"Invalid number", num>>)]
    ELSE IF ~ (0 <= row /\ row < BOARD_SIZE /\ 0 <= col /\ col < BOARD_SIZE)
    THEN [NewMoveResult EXCEPT !.is_valid = FALSE,
                               !.errors = Append(@, <<"Invalid position", row, col>>)]
    ELSE IF b[row][col] # EMPTY
    THEN [NewMoveResult EXCEPT !.is_valid = FALSE,
                               !.errors = Append(@, <<"not empty", row, col, b[row][col]>>)]
    ELSE BoxCheck(b, row, col, num, BOARD_SIZE,
             ColumnCheck(b, row, col, num,
                 RowCheck(b, row, col, num, NewMoveResult)))

\* SudokuValidator.is_valid_move
is_valid_move(b, row, col, num) ==
    IF ~ (0 <= row /\ row < BOARD_SIZE /\ 0 <= col /\ col < BOARD_SIZE)
    THEN [NewMoveResult EXCEPT !.is_valid = FALSE,
                               !.errors = Append(@, <<"Invalid position", row, col>>)]
    ELSE IF ~ (1 <= num /\ num <= BOARD_SIZE)
    THEN [NewMoveResult EXCEPT !.is_valid = FALSE,
                               !.errors = Append(@, <<"Invalid number", num>>)]
    ELSE IF b[row][col] # EMPTY
    THEN [NewMoveResult EXCEPT !.is_valid = FALSE,
                               !.errors = Append(@, <<"not empty", row, col, b[row][col]>>)]
    ELSE BoxCheck(b, row, col, num, BOARD_SIZE,
             ColumnCheck(b, row, col, num,
                 RowCheck(b, row, col, num, NewMoveResult)))

\* The same counting the filled cells instead of the empty ones.
Mutcheck_completion(b) ==
    LET empty_cells == SelectSeq(CellSeq, LAMBDA p : b[p[1]][p[2]] # EMPTY)
    IN  [is_complete |-> Len(empty_cells) = 0,
         empty_cells |-> empty_cells,
         empty_count |-> Len(empty_cells)]

\* SudokuValidator.check_completion
check_completion(b) ==
    LET empty_cells == SelectSeq(CellSeq, LAMBDA p : b[p[1]][p[2]] = EMPTY)
    IN  [is_complete |-> Len(empty_cells) = 0,
         empty_cells |-> empty_cells,
         empty_count |-> Len(empty_cells)]

\* The cells of row r, of column c and of box box_num in the order the
\* loops of find_conflicts visit them.
RowUnit(r) == [k \in 1 .. BOARD_SIZE |-> <<r, k - 1>>]

ColumnUnit(c) == [k \in 1 .. BOARD_SIZE |-> <<k - 1, c>>]

BoxUnit(box_num) ==
    LET box_row == (box_num \div BOX_SIDE) * BOX_SIDE
        box_col == (box_num % BOX_SIDE) * BOX_SIDE
    IN  [k \in 1 .. BOARD_SIZE |->
            <<box_row + ((k - 1) \div BOX_SIDE), box_col + ((k - 1) % BOX_SIDE)>>]

\* `seen = {}`, the unit's list of conflicting numbers not yet created, no
\* cell added; seen[num] = <<>> stands for `num not in seen`.
NewScan == [seen |-> [n \in Digits |-> <<>>], nums |-> <<>>, cells |-> {}]

\* The same without `conflict_cells.add(<the cell seen first>)`.
RECURSIVE MutScanUnit(_, _, _)
MutScanUnit(b, unit, k) ==
    IF k = 0
    THEN NewScan
    ELSE LET s == MutScanUnit(b, unit, k - 1)
             p == unit[k]
             num == b[p[1]][p[2]]
         IN  IF num = EMPTY
             THEN s
             ELSE IF s.seen[num] # <<>>
             THEN [s EXCEPT !.nums = IF num \in Range(@) THEN @ ELSE Append(@, num),
                            !.cells = @ \cup {p}]
             ELSE [s EXCEPT !.seen[num] = p]

\* The inner loop of find_conflicts over one row, column or box, after the
\* first k cells of the unit: seen maps a number to the cell it was first
\* seen in, nums is the unit's entry in row_conflicts (column_conflicts,
\* box_conflicts), cells what the unit added to conflict_cells.
RECURSIVE ScanUnit(_, _, _)
ScanUnit(b, unit, k) ==
    IF k = 0
    THEN NewScan
    ELSE LET s == ScanUnit(b, unit, k - 1)
             p == unit[k]
             num == b[p[1]][p[2]]
         IN  IF num = EMPTY
             THEN s
             ELSE IF s.seen[num] # <<>>
             THEN [s EXCEPT !.nums = IF num \in Range(@) THEN @ ELSE Append(@, num),
                            !.cells = @ \cup {p, s.seen[num]}]
             ELSE [s EXCEPT !.seen[num] = p]

\* Tuple order of Python on (row, col) pairs.
TupleLess(p, q) == p[1] < q[1] \/ (p[1] = q[1] /\ p[2] < q[2])

\* The same ordered by column first.
RECURSIVE MutSorted(_)
MutSorted(S) ==
    IF S = {}
    THEN <<>>
    ELSE LET m == CHOOSE p \in S : \A q \in S \ {p} : TupleLess(<<p[2], p[1]>>, <<q[2], q[1]>>)
         IN  <<m>> \o MutSorted(S \ {m})

\* sorted(list(conflict_cells))
RECURSIVE Sorted(_)
Sorted(S) ==
    IF S = {}
    THEN <<>>
    ELSE LET m == CHOOSE p \in S : \A q \in S \ {p} : TupleLess(p, q)
         IN  <<m>> \o Sorted(S \ {m})

\* SudokuValidator.find_conflicts; a dict is the function from its keys.
find_conflicts(b) ==
    LET rows == [r \in Idx |-> ScanUnit(b, RowUnit(r), BOARD_SIZE)]
        columns == [c \in Idx |-> ScanUnit(b, ColumnUnit(c), BOARD_SIZE)]
        boxes == [n \in Idx |-> ScanUnit(b, BoxUnit(n), BOARD_SIZE)]
        conflict_cells ==
            UNION ({rows[r].cells : r \in Idx} \cup {columns[c].cells : c \in Idx}
                   \cup {boxes[n].cells : n \in Idx})
    IN  [has_conflicts |-> Cardinality(conflict_cells) > 0,
         row_conflicts |-> [r \in {x \in Idx : rows[x].nums # <<>>} |-> rows[r].nums],
         column_conflicts |-> [c \in {x \in Idx : columns[x].nums # <<>>} |-> columns[c].nums],
         box_conflicts |-> [n \in {x \in Idx : boxes[x].nums # <<>>} |-> boxes[n].nums],
         conflict_cells |-> Sorted(conflict_cells),
         total_conflicts |-> Cardinality(conflict_cells)]

\* list(d.keys()) of a dict whose keys were inserted in increasing order.
RECURSIVE Keys(_)
Keys(K) ==
    IF K = {}
    THEN <<>>
    ELSE LET m == CHOOSE x \in K : \A y \in K : x <= y
         IN  <<m>> \o Keys(K \ {m})

\* '; '.join(summary_parts): the parts with the separator between them.
RECURSIVE Join(_)
Join(parts) ==
    IF Len(parts) <= 1
    THEN parts
    ELSE <<Head(parts), <<"; ">>>> \o Join(Tail(parts))

\* The summary_parts of validate_board_integrity before the last `if`.
IssueParts(completion, conflicts) ==
    (IF conflicts.has_conflicts
     THEN <<<<"conflicting cells found", conflicts.total_conflicts>>>>
          \o (IF DOMAIN conflicts.row_conflicts # {}
              THEN <<<<"Row conflicts in rows", Keys(DOMAIN conflicts.row_conflicts)>>>>
              ELSE <<>>)
          \o (IF DOMAIN conflicts.column_conflicts # {}
              THEN <<<<"Column conflicts in columns", Keys(DOMAIN conflicts.column_conflicts)>>>>
              ELSE <<>>)
          \o (IF DOMAIN conflicts.box_conflicts # {}
              THEN <<<<"Box conflicts in boxes", Keys(DOMAIN conflicts.box_conflicts)>>>>
              ELSE <<>>)
     ELSE <<>>)
    \o (IF ~ completion.is_complete
        THEN <<<<"empty cells", completion.empty_count>>>>
        ELSE <<>>)

\* The same with the verdict taken from the conflicts alone.
MutIntegrityVerdict(b) ==
    LET completion == check_completion(b)
        conflicts == find_conflicts(b)
        is_valid == ~ conflicts.has_conflicts
        summary_parts ==
            IssueParts(completion, conflicts)
            \o (IF is_valid THEN <<<<"Board is valid and complete">>>> ELSE <<>>)
    IN  [is_valid |-> is_valid,
         completion |-> completion,
         conflicts |-> conflicts,
         summary |-> IF summary_parts # <<>>
                     THEN Join(summary_parts)
                     ELSE <<<<"No issues found">>>>]

\* The same with the empty-cell clause left out of the summary.
MutIntegritySummary(b) ==
    LET completion == check_completion(b)
        conflicts == find_conflicts(b)
        is_valid == ~ conflicts.has_conflicts /\ completion.is_complete
        summary_parts ==
            IssueParts([completion EXCEPT !.is_complete = TRUE], conflicts)
            \o (IF is_valid THEN <<<<"Board is valid and complete">>>> ELSE <<>>)
    IN  [is_valid |-> is_valid,
         completion |-> completion,
         conflicts |-> conflicts,
         summary |-> IF summary_parts # <<>>
                     THEN Join(summary_parts)
                     ELSE <<<<"No issues found">>>>]

\* SudokuValidator.validate_board_integrity; the summary is the list of its
\* clauses and separators, each a tuple of its text and its arguments.
validate_board_integrity(b) ==
    LET completion == check_completion(b)
        conflicts == find_conflicts(b)
        is_valid == ~ conflicts.has_conflicts /\ completion.is_complete
        summary_parts ==
            IssueParts(completion, conflicts)
            \o (IF is_valid THEN <<<<"Board is valid and complete">>>> ELSE <<>>)
    IN  [is_valid |-> is_valid,
         completion |-> completion,
         conflicts |-> conflicts,
         summary |-> IF summary_parts # <<>>
                     THEN Join(summary_parts)
                     ELSE <<<<"No issues found">>>>]

\* ------------------------------------------------- the validator's callers
\* Largest value written into the cells that vary over the grids passed.
VAL_MAX == 2

\* The cells that vary: three of row 0, two of the last column, one more of
\* the column of <<0, 2>>.
ValCells == {<<0, 0>>, <<0, 1>>, <<0, BOARD_SIZE - 1>>, <<1, BOARD_SIZE - 1>>, <<2, 2>>}

\* g with the cells of ValCells holding f.
Overwritten(g, f) ==
    [r \in Idx |-> [c \in Idx |-> IF <<r, c>> \in ValCells THEN f[<<r, c>>] ELSE g[r][c]]]

\* The grids passed to the validator: any grid, partial or full, with or
\* without duplicates. The empty grid with ValCells holding any of
\* 0 .. VAL_MAX, the shifted-rows solved grid, and that grid with ValCells
\* holding 1.
ValInputs ==
    {Overwritten(EmptyBoard, f) : f \in [ValCells -> 0 .. VAL_MAX]}
    \cup {PatternGrid}
    \cup {Overwritten(PatternGrid, f) : f \in [ValCells -> 1 .. 1]}

\* The moves passed to is_valid_move: positions and numbers in and out of range.
MoveRows == {-1, 0, 2, BOARD_SIZE}
MoveCols == {-1, 2, BOARD_SIZE}
MoveNums == {0, 1, 2, BOARD_SIZE + 1}

\* validator.is_valid_move(board, row, col, num)
IsValidMoveCall(row, col, num) ==
    /\ pc = "val_idle"
    /\ call' = [op |-> "is_valid_move", row |-> row, col |-> col, num |-> num]
    /\ report' = is_valid_move(board, row, col, num)
    /\ pc' = "val_returned"
    /\ UNCHANGED <<impl, given, board, stack, result, solution, target_clues,
                   removed, attempts, err, difficulty, limit_arg, solution_count, games, models>>

\* validator.check_completion(board)
CheckCompletionCall ==
    /\ pc = "val_idle"
    /\ call' = [op |-> "check_completion"]
    /\ report' = check_completion(board)
    /\ pc' = "val_returned"
    /\ UNCHANGED <<impl, given, board, stack, result, solution, target_clues,
                   removed, attempts, err, difficulty, limit_arg, solution_count, games, models>>

\* validator.find_conflicts(board)
FindConflictsCall ==
    /\ pc = "val_idle"
    /\ call' = [op |-> "find_conflicts"]
    /\ report' = find_conflicts(board)
    /\ pc' = "val_returned"
    /\ UNCHANGED <<impl, given, board, stack, result, solution, target_clues,
                   removed, attempts, err, difficulty, limit_arg, solution_count, games, models>>

\* validator.validate_board_integrity(board)
ValidateBoardIntegrityCall ==
    /\ pc = "val_idle"
    /\ call' = [op |-> "validate_board_integrity"]
    /\ report' = validate_board_integrity(board)
    /\ pc' = "val_returned"
    /\ UNCHANGED <<impl, given, board, stack, result, solution, target_clues,
                   removed, attempts, err, difficulty, limit_arg, solution_count, games, models>>

ValInit ==
    /\ impl = "utils"
    /\ pc = "val_idle"
    /\ given \in ValInputs
    /\ board = given
    /\ stack = <<>>
    /\ result = "none"
    /\ solution = NoGrid
    /\ target_clues = 0
    /\ removed = 0
    /\ attempts = 0
    /\ err = "none"
    /\ difficulty = "none"
    /\ limit_arg = 0
    /\ solution_count = 0
    /\ games = NoGames
    /\ call = NoCall
    /\ report = NoReport
    /\ ModelsInit

ValNext ==
    \/ \E row \in MoveRows, col \in MoveCols, num \in MoveNums : IsValidMoveCall(row, col, num)
    \/ CheckCompletionCall
    \/ FindConflictsCall
    \/ ValidateBoardIntegrityCall

SpecVal == ValInit /\ [][ValNext]_vars

\* A call of op has returned.
Returned(op) == pc = "val_returned" /\ call.op = op

\* ------------------------------------------------------- validator claims
\* The cells that share a row, a column or a box with p, p included.
SameBox(p, q) ==
    p[1] \div BOX_SIDE = q[1] \div BOX_SIDE /\ p[2] \div BOX_SIDE = q[2] \div BOX_SIDE

RowOf(p) == {q \in Cells : q[1] = p[1]}
ColumnOf(p) == {q \in Cells : q[2] = p[2]}
BoxOf(p) == {q \in Cells : SameBox(p, q)}

\* The cells of S that hold v on the grid passed.
Holding(S, v) == {q \in S : board[q[1]][q[2]] = v}

\* The non-empty cells whose value is held by another cell of unit U.
DuplicatedIn(U) ==
    {q \in U : board[q[1]][q[2]] # EMPTY /\ Holding(U \ {q}, board[q[1]][q[2]]) # {}}

\* The rows, the columns and the boxes as sets of cells.
Rows == {RowOf(<<r, 0>>) : r \in Idx}
Columns == {ColumnOf(<<0, c>>) : c \in Idx}
Boxes == {Range(BoxUnit(n)) : n \in Idx}

\* Every cell with a duplicate in its row, its column or its box.
Duplicated == UNION {DuplicatedIn(U) : U \in Rows \cup Columns \cup Boxes}

\* is_valid_move has returned from a call with an in-range position, an
\* in-range number and an empty target cell.
LegalTarget ==
    /\ Returned("is_valid_move")
    /\ call.row \in Idx /\ call.col \in Idx /\ call.num \in Digits
    /\ board[call.row][call.col] = EMPTY

\* The first of the three input tests that the call fails ("none" if none).
InputFault ==
    IF ~ (call.row \in Idx /\ call.col \in Idx) THEN "Invalid position"
    ELSE IF call.num \notin Digits THEN "Invalid number"
    ELSE IF board[call.row][call.col] # EMPTY THEN "not empty"
    ELSE "none"

\* C11: is_valid_move tests position, then number, then that the target is
\* empty; the first test that fails ends the call with is_valid false, one
\* error naming that cause, no conflicts and conflict_type unset.
C11_IllegalInputRejected ==
    (Returned("is_valid_move") /\ InputFault # "none") =>
        /\ ~ report.is_valid
        /\ Len(report.errors) = 1
        /\ report.errors[1][1] = InputFault
        /\ report.conflicts = <<>>
        /\ report.conflict_type = "None"

\* C11 witness: a call with both the position and the number out of range
\* has returned the position error.
C11_Witness ==
    /\ Returned("is_valid_move")
    /\ call.row = -1 /\ call.num = 0
    /\ report.errors[1][1] = "Invalid position"

\* 1 for true, 0 for false.
Count(hit) == IF hit THEN 1 ELSE 0

\* C12 (as claimed): for an in-range move onto an empty cell is_valid is
\* false iff the value is in the row, the column or the box, there is one
\* error per check that found it, and conflict_type is the first of row,
\* column, box that found it.
C12_OneErrorPerCheck ==
    LegalTarget =>
        LET p == <<call.row, call.col>>
            row_hit == Holding(RowOf(p), call.num) # {}
            column_hit == Holding(ColumnOf(p), call.num) # {}
            box_hit == Holding(BoxOf(p), call.num) # {}
        IN  /\ report.is_valid <=> ~ (row_hit \/ column_hit \/ box_hit)
            /\ Len(report.errors) = Count(row_hit) + Count(column_hit) + Count(box_hit)
            /\ report.conflict_type =
                  IF row_hit THEN "row"
                  ELSE IF column_hit THEN "column"
                  ELSE IF box_hit THEN "box"
                  ELSE "None"

\* C13 (as claimed): for an in-range move of v onto an empty cell, conflicts
\* holds every cell of the target's row, column and box that holds v.
C13_EveryConflictListed ==
    LegalTarget =>
        LET p == <<call.row, call.col>>
        IN  Holding(RowOf(p) \cup ColumnOf(p) \cup BoxOf(p), call.num)
                \subseteq Range(report.conflicts)

\* C14: conflict_cells of find_conflicts is exactly the cells with a
\* duplicate in their row, column or box, so both cells of every duplicated
\* pair (all of them when a value occurs three times or more), and each
\* unit's entry lists exactly the values duplicated in it.
C14_ConflictsSymmetric ==
    Returned("find_conflicts") =>
        /\ Range(report.conflict_cells) = Duplicated
        /\ \A x \in Idx :
              /\ {board[q[1]][q[2]] : q \in DuplicatedIn(RowOf(<<x, 0>>))} =
                    IF x \in DOMAIN report.row_conflicts
                    THEN Range(report.row_conflicts[x]) ELSE {}
              /\ {board[q[1]][q[2]] : q \in DuplicatedIn(ColumnOf(<<0, x>>))} =
                    IF x \in DOMAIN report.column_conflicts
                    THEN Range(report.column_conflicts[x]) ELSE {}
              /\ {board[q[1]][q[2]] : q \in DuplicatedIn(Range(BoxUnit(x)))} =
                    IF x \in DOMAIN report.box_conflicts
                    THEN Range(report.box_conflicts[x]) ELSE {}

\* C14 witness: find_conflicts has returned on a grid whose row 0 holds one
\* value three times, and reports all three cells.
C14_Witness ==
    /\ Returned("find_conflicts")
    /\ board[0][0] = 1 /\ board[0][1] = 1 /\ board[0][BOARD_SIZE - 1] = 1
    /\ {<<0, 0>>, <<0, 1>>, <<0, BOARD_SIZE - 1>>} \subseteq Range(report.conflict_cells)

\* C15: the report of find_conflicts is self-consistent: conflict_cells is
\* in strictly increasing (row, col) order, total_conflicts is its length,
\* has_conflicts iff total_conflicts > 0 iff one of the three dicts has an
\* entry; two equal values in row 0 alone give total_conflicts = 2,
\* conflict_cells = [(0,0),(0,1)] and row_conflicts = {0: [v]}.
C15_ReportConsistent ==
    Returned("find_conflicts") =>
        /\ \A i \in 1 .. Len(report.conflict_cells) - 1 :
              TupleLess(report.conflict_cells[i], report.conflict_cells[i + 1])
        /\ report.total_conflicts = Len(report.conflict_cells)
        /\ report.has_conflicts <=> report.total_conflicts > 0
        /\ report.total_conflicts > 0 <=>
              (DOMAIN report.row_conflicts \cup DOMAIN report.column_conflicts
                  \cup DOMAIN report.box_conflicts) # {}
        /\ \A v \in Digits :
              board = Place(Place(EmptyBoard, 0, 0, v), 0, 1, v) =>
                  /\ report.total_conflicts = 2
                  /\ report.conflict_cells = <<<<0, 0>>, <<0, 1>>>>
                  /\ DOMAIN report.row_conflicts = {0}
                  /\ report.row_conflicts[0] = <<v>>

\* C15 witness: find_conflicts has returned on the grid with two equal
\* values in row 0 and nothing else.
C15_Witness ==
    /\ Returned("find_conflicts")
    /\ board = Place(Place(EmptyBoard, 0, 0, 1), 0, 1, 1)
    /\ report.total_conflicts = 2

\* C16: validate_board_integrity reports is_valid iff the grid has no empty
\* cell and no cell with a duplicate in its row, column or box.
C16_ValidIffCompleteAndClean ==
    Returned("validate_board_integrity") =>
        /\ report.is_valid <=> (EmptyCells(board) = {} /\ Duplicated = {})
        /\ report.is_valid <=>
              (report.completion.is_complete /\ ~ report.conflicts.has_conflicts)

\* C16 witness: validate_board_integrity has returned on a full grid with a
\* duplicate, and reports it invalid.
C16_Witness ==
    /\ Returned("validate_board_integrity")
    /\ EmptyCells(board) = {} /\ Duplicated # {}
    /\ ~ report.is_valid

\* The texts of the clauses a summary is made of when the grid is not
\* clean, in their order.
IssueTexts ==
    (IF Duplicated # {}
     THEN <<"conflicting cells found">>
          \o (IF \E U \in Rows : DuplicatedIn(U) # {} THEN <<"Row conflicts in rows">> ELSE <<>>)
          \o (IF \E U \in Columns : DuplicatedIn(U) # {}
              THEN <<"Column conflicts in columns">> ELSE <<>>)
          \o (IF \E U \in Boxes : DuplicatedIn(U) # {} THEN <<"Box conflicts in boxes">> ELSE <<>>)
     ELSE <<>>)
    \o (IF EmptyCells(board) # {} THEN <<"empty cells">> ELSE <<>>)

\* The summary is the clauses of texts joined by '; '.
SummaryIs(texts) ==
    /\ Len(report.summary) = 2 * Len(texts) - 1
    /\ \A i \in 1 .. Len(texts) : report.summary[2 * i - 1][1] = texts[i]
    /\ \A i \in 1 .. Len(texts) - 1 : report.summary[2 * i][1] = "; "

\* C17 (as claimed): the summary is 'No issues found' when the grid is
\* complete and conflict-free, and otherwise the applicable clauses joined
\* by '; '.
C17_NoIssuesWhenClean ==
    Returned("validate_board_integrity") =>
        IF EmptyCells(board) = {} /\ Duplicated = {}
        THEN SummaryIs(<<"No issues found">>)
        ELSE SummaryIs(IssueTexts)

\* C17 (amended): the summary is 'Board is valid and complete' when the grid
\* is complete and conflict-free, and otherwise the applicable clauses (with
\* the conflict count and the empty-cell count) joined by '; '; it is never
\* 'No issues found'.
C17_ValidAndCompleteWhenClean ==
    Returned("validate_board_integrity") =>
        /\ IF EmptyCells(board) = {} /\ Duplicated = {}
           THEN SummaryIs(<<"Board is valid and complete">>)
           ELSE /\ SummaryIs(IssueTexts)
                /\ Duplicated # {} =>
                      report.summary[1] = <<"conflicting cells found", Cardinality(Duplicated)>>
                /\ EmptyCells(board) # {} =>
                      report.summary[Len(report.summary)] =
                          <<"empty cells", Cardinality(EmptyCells(board))>>
        /\ \A i \in 1 .. Len(report.summary) : report.summary[i][1] # "No issues found"

\* C17 witness: validate_board_integrity has returned on a complete and
\* conflict-free grid.
C17_Witness ==
    /\ Returned("validate_board_integrity")
    /\ EmptyCells(board) = {} /\ Duplicated = {}
    /\ report.is_valid

\* C18: check_completion returns as empty_cells exactly the cells holding 0,
\* in row-major order, as empty_count their number, and is_complete iff
\* that number is 0.
C18_EmptyInventory ==
    Returned("check_completion") =>
        /\ Range(report.empty_cells) = EmptyCells(board)
        /\ \A i \in 1 .. Len(report.empty_cells) - 1 :
              RowMajor(report.empty_cells[i]) < RowMajor(report.empty_cells[i + 1])
        /\ report.empty_count = Cardinality(EmptyCells(board))
        /\ report.is_complete <=> report.empty_count = 0
        /\ board = EmptyBoard => report.empty_count = NUM_CELLS

\* C18 witness: check_completion has returned on the empty grid.
C18_Witness ==
    /\ Returned("check_completion")
    /\ board = EmptyBoard
    /\ report.empty_count = NUM_CELLS /\ ~ report.is_complete

\* ================================================ services/game_service.py
\* The game ids the callers use.
GameIds == {"g1", "g2"}

\* The cells remove_clues draws from in the games started here: the first
\* SVC_SPAN cells in row-major order.
SVC_SPAN == 2

SvcCells == {p \in Cells : RowMajor(p) < SVC_SPAN}

\* What puzzle_generator.generate(clues) (domain generate_puzzle) returns for
\* a clue count in range: a solved grid and that grid with all but `clues`
\* cells cleared.
GeneratedPairs(clues) ==
    {<<Blanked(PatternGrid, cs), PatternGrid>> :
        cs \in {x \in SUBSET SvcCells : Cardinality(x) = NUM_CELLS - clues}}

\* The clue counts passed to start_new_game.
SvcClues == {MIN_CLUES - 1, MAX_CLUES - 2, MAX_CLUES}

\* GameState(game_id, puzzle, solution, current_board=puzzle.copy(),
\* difficulty="medium") of domain/models.py; the two timestamps are left out.
NewGameState(game_id, pair) ==
    [game_id |-> game_id, puzzle |-> pair[1], solution |-> pair[2],
     current_board |-> pair[1], difficulty |-> "medium", moves |-> 0]

\* The game states passed to save_game.
SvcStates ==
    {NewGameState(id, pair) : id \in GameIds,
        pair \in UNION {GeneratedPairs(n) : n \in {x \in SvcClues : InClueRange(x)}}}

\* The boards passed to check_solution and get_hint: the solution, the
\* puzzles and a full grid that differs from the solution.
SvcBoards ==
    {PatternGrid, Place(PatternGrid, 0, 0, PatternGrid[0][1])}
    \cup {st.puzzle : st \in SvcStates}

\* The cells random.choice can draw from the empty cells of b (any cell
\* stands for the draw that is never made when there is none).
HintDraws(b) == IF EmptyCells(b) = {} THEN {<<0, 0>>} ELSE EmptyCells(b)

\* The same handing out an empty default game when there is no entry.
MutLoad(game_id) ==
    IF game_id \in DOMAIN games
    THEN <<games[game_id]>>
    ELSE <<NewGameState(game_id, <<EmptyBoard, EmptyBoard>>)>>

\* MemoryGameRepository.load: self._games.get(game_id); <<>> is None and
\* <<state>> the state found.
Load(game_id) ==
    IF game_id \in DOMAIN games
    THEN <<games[game_id]>>
    ELSE <<>>

\* MemoryGameRepository.save: self._games[game_id] = state
Save(game_id, state) ==
    [id \in DOMAIN games \cup {game_id} |-> IF id = game_id THEN state ELSE games[id]]

\* The same comparing the boards without the solution's first row.
Mutfind_incorrect_cells(current, sol) ==
    SelectSeq(CellSeq, LAMBDA p : p[1] > 0 /\ current[p[1]][p[2]] # sol[p[1]][p[2]])

\* domain find_incorrect_cells(current, solution)
find_incorrect_cells(current, sol) ==
    SelectSeq(CellSeq, LAMBDA p : current[p[1]][p[2]] # sol[p[1]][p[2]])

\* What a service call leaves alone in the generator's state.
SvcFrame ==
    UNCHANGED <<impl, pc, given, stack, result, solution, target_clues, removed,
                attempts, difficulty, limit_arg, solution_count, models>>

\* GameService.start_new_game(game_id, clues): generate raises ValueError
\* for a clue count out of range, and nothing is saved; otherwise the new
\* state is saved under game_id and the puzzle returned.
StartNewGame(game_id, clues, pair) ==
    /\ pc = "svc"
    /\ call' = [op |-> "start_new_game", game_id |-> game_id, clues |-> clues]
    /\ IF ~ InClueRange(clues)
       THEN /\ err' = "ValueError"
            /\ report' = NoReport
            /\ UNCHANGED <<games, board>>
       ELSE /\ pair \in GeneratedPairs(clues)
            /\ games' = Save(game_id, NewGameState(game_id, pair))
            /\ err' = "none"
            /\ report' = [op |-> "start_new_game", puzzle |-> pair[1]]
            /\ board' = pair[1]
    /\ SvcFrame

\* GameService.save_game(game_id, game_state)
SaveGame(game_id, state) ==
    /\ pc = "svc"
    /\ call' = [op |-> "save_game", game_id |-> game_id]
    /\ games' = Save(game_id, state)
    /\ err' = "none"
    /\ report' = NoReport
    /\ UNCHANGED board
    /\ SvcFrame

\* MemoryGameRepository.delete(game_id)
DeleteGame(game_id) ==
    /\ pc = "svc"
    /\ call' = [op |-> "delete", game_id |-> game_id]
    /\ games' = IF game_id \in DOMAIN games
                THEN [id \in DOMAIN games \ {game_id} |-> games[id]]
                ELSE games
    /\ err' = "none"
    /\ report' = NoReport
    /\ UNCHANGED board
    /\ SvcFrame

\* GameService.check_solution(game_id, board)
CheckSolution(game_id, b) ==
    /\ pc = "svc"
    /\ call' = [op |-> "check_solution", game_id |-> game_id, board |-> b]
    /\ board' = b
    /\ LET game_state == Load(game_id)
       IN  IF game_state = <<>>
           THEN /\ err' = "GameNotFoundError"
                /\ report' = NoReport
           ELSE LET incorrect_cells == find_incorrect_cells(b, game_state[1].solution)
                    is_complete == \A p \in Cells : b[p[1]][p[2]] # EMPTY
                    is_correct == is_complete /\ Len(incorrect_cells) = 0
                IN  /\ err' = "none"
                    /\ report' = [op |-> "check_solution",
                                  is_correct |-> is_correct,
                                  incorrect_cells |-> incorrect_cells,
                                  message |-> IF is_correct THEN "Correct!" ELSE ""]
    /\ UNCHANGED games
    /\ SvcFrame

\* GameService.get_game_state(game_id)
GetGameState(game_id) ==
    /\ pc = "svc"
    /\ call' = [op |-> "get_game_state", game_id |-> game_id]
    /\ LET game_state == Load(game_id)
       IN  IF game_state = <<>>
           THEN /\ err' = "GameNotFoundError"
                /\ report' = NoReport
           ELSE /\ err' = "none"
                /\ report' = [op |-> "get_game_state", state |-> game_state[1]]
    /\ UNCHANGED <<games, board>>
    /\ SvcFrame

\* GameService.get_hint(game_id, current_board), p the cell random.choice
\* draws when there is an empty one. The state loaded is the object the
\* repository holds, so what is set on it is set in the repository, saved
\* or not. The caller's board and the stored current_board get the solution
\* value first; `game_state.locked_cells.append` then raises AttributeError
\* on a state without that attribute (GameState of domain/models.py has
\* none), before moves, hints_used and save_game.
GetHint(game_id, b, p) ==
    /\ pc = "svc"
    /\ call' = [op |-> "get_hint", game_id |-> game_id, board |-> b]
    /\ LET game_state == Load(game_id)
       IN  IF game_state = <<>>
           THEN /\ err' = "GameNotFoundError"
                /\ report' = NoReport
                /\ board' = b
                /\ UNCHANGED games
           ELSE IF EmptyCells(b) = {}
           THEN /\ err' = "ValidationError"
                /\ report' = NoReport
                /\ board' = b
                /\ UNCHANGED games
           ELSE LET st == game_state[1]
                    solution_value == st.solution[p[1]][p[2]]
                    hinted == [st EXCEPT !.current_board = Place(@, p[1], p[2], solution_value)]
                IN  /\ p \in EmptyCells(b)
                    /\ board' = Place(b, p[1], p[2], solution_value)
                    /\ IF "locked_cells" \notin DOMAIN st
                       THEN /\ games' = Save(game_id, hinted)
                            /\ err' = "AttributeError"
                            /\ report' = NoReport
                       ELSE LET hints_used ==
                                    IF "hints_used" \in DOMAIN st THEN st.hints_used + 1 ELSE 1
                                counted ==
                                    [id \in DOMAIN hinted \cup {"hints_used"} |->
                                        IF id = "hints_used" THEN hints_used
                                        ELSE IF id = "locked_cells" THEN Append(hinted.locked_cells, p)
                                        ELSE IF id = "moves" THEN hinted.moves + 1
                                        ELSE hinted[id]]
                            IN  /\ games' = Save(game_id, counted)
                                /\ err' = "none"
                                /\ report' = [op |-> "get_hint", row |-> p[1], col |-> p[2],
                                              value |-> solution_value,
                                              hints_used |-> hints_used]
    /\ SvcFrame

SvcInit ==
    /\ impl = "domain"
    /\ pc = "svc"
    /\ given = NoGrid
    /\ board = NoGrid
    /\ stack = <<>>
    /\ result = "none"
    /\ solution = NoGrid
    /\ target_clues = 0
    /\ removed = 0
    /\ attempts = 0
    /\ err = "none"
    /\ difficulty = "none"
    /\ limit_arg = 0
    /\ solution_count = 0
    /\ games = NoGames
    /\ call = NoCall
    /\ report = NoReport
    /\ ModelsInit

SvcNext ==
    \/ \E id \in GameIds, n \in SvcClues, pair \in UNION {GeneratedPairs(x) : x \in SvcClues} :
          StartNewGame(id, n, pair)
    \/ \E id \in GameIds, st \in SvcStates : SaveGame(id, st)
    \/ \E id \in GameIds : DeleteGame(id)
    \/ \E id \in GameIds, b \in SvcBoards : CheckSolution(id, b)
    \/ \E id \in GameIds : GetGameState(id)
    \/ \E id \in GameIds, b \in SvcBoards : \E p \in HintDraws(b) : GetHint(id, b, p)

SpecSvc == SvcInit /\ [][SvcNext]_vars

\* --------------------------------------------------------- service claims
\* C19: check_solution on a stored game raises nothing and changes nothing
\* in the repository; is_correct iff the board has no empty cell and equals
\* the stored solution in every cell; incorrect_cells is the cells where
\* the board differs from the solution, empty ones included, in row-major
\* order.
C19_CheckSolution ==
    [][ (call'.op = "check_solution" /\ call'.game_id \in DOMAIN games) =>
          LET sol == games[call'.game_id].solution
              b == call'.board
              cells == report'.incorrect_cells
          IN  /\ games' = games
              /\ err' = "none"
              /\ report'.is_correct <=> (EmptyCells(b) = {} /\ b = sol)
              /\ Range(cells) = {p \in Cells : b[p[1]][p[2]] # sol[p[1]][p[2]]}
              /\ \A i \in 1 .. Len(cells) - 1 : RowMajor(cells[i]) < RowMajor(cells[i + 1])
      ]_vars

\* C19 witness: check_solution has returned on a stored game for a board
\* with empty cells, which it lists as incorrect.
C19_Witness ==
    /\ call.op = "check_solution" /\ err = "none"
    /\ EmptyCells(board) # {}
    /\ ~ report.is_correct
    /\ Range(report.incorrect_cells) = EmptyCells(board)

\* C20: check_solution, get_hint and get_game_state called with a game id
\* that has no entry, after any start_new_game, save_game and delete calls,
\* raise GameNotFoundError, return nothing and leave the repository as it
\* was, with no entry for the id.
C20_UnknownGameRaises ==
    [][ (/\ call'.op \in {"check_solution", "get_hint", "get_game_state"}
         /\ call'.game_id \notin DOMAIN games) =>
            /\ err' = "GameNotFoundError"
            /\ report'.op = "none"
            /\ games' = games
            /\ call'.game_id \notin DOMAIN games'
      ]_vars

\* C20 witness: get_hint has raised GameNotFoundError for an id without an
\* entry while another game is stored.
C20_Witness ==
    /\ call.op = "get_hint" /\ err = "GameNotFoundError"
    /\ DOMAIN games # {}
    /\ call.game_id \notin DOMAIN games

\* The hint counter of a stored state: the attribute get_hint creates on
\* its first use, 0 while the state has none.
HintsUsed(st) == IF "hints_used" \in DOMAIN st THEN st.hints_used ELSE 0

\* The locked cells of a stored state, none while it has no such attribute.
LockedCells(st) == IF "locked_cells" \in DOMAIN st THEN Range(st.locked_cells) ELSE {}

\* C21: get_hint on a stored game with a board that has an empty cell
\* returns a cell that was empty on the board together with the solution's
\* value for it, reports the hint counter raised by exactly one, and adds
\* the cell to the game's locked cells.
C21_HintGiven ==
    [][ (/\ call'.op = "get_hint"
         /\ call'.game_id \in DOMAIN games
         /\ EmptyCells(call'.board) # {}) =>
            /\ err' = "none"
            /\ report'.op = "get_hint"
            /\ <<report'.row, report'.col>> \in EmptyCells(call'.board)
            /\ report'.value = games[call'.game_id].solution[report'.row][report'.col]
            /\ report'.hints_used = HintsUsed(games[call'.game_id]) + 1
            /\ HintsUsed(games'[call'.game_id]) = HintsUsed(games[call'.game_id]) + 1
            /\ <<report'.row, report'.col>> \in LockedCells(games'[call'.game_id])
      ]_vars

\* C30: a get_hint call that raises leaves the caller's board as it was
\* passed in and the stored game's current_board, moves and hint counter
\* as they were before the call.
C30_HintAllOrNothing ==
    [][ (call'.op = "get_hint" /\ err' # "none") =>
            /\ board' = call'.board
            /\ DOMAIN games' = DOMAIN games
            /\ call'.game_id \in DOMAIN games =>
                  LET old == games[call'.game_id]
                      new == games'[call'.game_id]
                  IN  /\ new.current_board = old.current_board
                      /\ new.moves = old.moves
                      /\ HintsUsed(new) = HintsUsed(old)
      ]_vars

\* ===================================================== models/game_state.py
\* datetime.isoformat(): the fraction is written only when the microsecond
\* is not 0. A datetime is [sec, micro]; the string is the sequence of its
\* written parts.
isoformat(dt) == IF dt.micro = 0 THEN <<dt.sec>> ELSE <<dt.sec, dt.micro>>

\* datetime.fromisoformat(): a missing fraction reads as microsecond 0.
fromisoformat(str) ==
    [sec |-> str[1], micro |-> IF Len(str) > 1 THEN str[2] ELSE 0]

\* list(cell) of a (row, col) tuple, and tuple(cell) of such a list.
ListOf(cell) == <<"list">> \o cell
TupleOf(cell) == Tail(cell)

\* GameState.__post_init__: an empty locked_cells is replaced by the cells
\* of the board that are not EMPTY, in row-major order. (The boards passed
\* all have BOARD_SIZE rows and columns, so the ValueErrors are not raised.)
PostInit(s) ==
    IF s.locked_cells = <<>>
    THEN [s EXCEPT !.locked_cells =
            SelectSeq(CellSeq, LAMBDA p : s.board[p[1]][p[2]] # EMPTY)]
    ELSE s

\* GameState(board, difficulty, start_time, hints_used, locked_cells, is_complete)
GameState(b, level, start_time, hints_used, locked_cells, is_complete) ==
    PostInit([board |-> b, difficulty |-> level, start_time |-> start_time,
              hints_used |-> hints_used, locked_cells |-> locked_cells,
              is_complete |-> is_complete])

\* GameState.to_dict
to_dict(s) ==
    [board |-> s.board,
     difficulty |-> s.difficulty,
     start_time |-> isoformat(s.start_time),
     hints_used |-> s.hints_used,
     locked_cells |-> [i \in 1 .. Len(s.locked_cells) |-> ListOf(s.locked_cells[i])],
     is_complete |-> s.is_complete]

\* GameState.from_dict
from_dict(data) ==
    GameState(data.board, data.difficulty, fromisoformat(data.start_time),
              data.hints_used,
              [i \in 1 .. Len(data.locked_cells) |-> TupleOf(data.locked_cells[i])],
              data.is_complete)

\* GameState.copy
copy(s) ==
    GameState(s.board, s.difficulty, s.start_time, s.hints_used, s.locked_cells,
              s.is_complete)

\* list.remove(x): the list without the first occurrence of x.
Remove(seq, x) ==
    LET i == CHOOSE k \in 1 .. Len(seq) : seq[k] = x /\ \A j \in 1 .. k - 1 : seq[j] # x
    IN  [k \in 1 .. Len(seq) - 1 |-> IF k < i THEN seq[k] ELSE seq[k + 1]]

\* Both methods' position test.
ValidPosition(cell) ==
    /\ 0 <= cell[1] /\ cell[1] < BOARD_SIZE
    /\ 0 <= cell[2] /\ cell[2] < BOARD_SIZE

\* GameState.unlock_cell: the state afterwards, the exception raised and
\* the value returned.
unlock_cell(s, cell) ==
    IF ~ ValidPosition(cell)
    THEN [state |-> s, raised |-> "ValueError", value |-> FALSE]
    ELSE IF cell \in Range(s.locked_cells)
    THEN [state |-> [s EXCEPT !.locked_cells = Remove(@, cell)],
          raised |-> "none", value |-> TRUE]
    ELSE [state |-> s, raised |-> "none", value |-> FALSE]

\* The same appending the cell whether it is locked or not.
MutLockCell(s, cell) ==
    IF ~ ValidPosition(cell)
    THEN [state |-> s, raised |-> "ValueError", value |-> FALSE]
    ELSE [state |-> [s EXCEPT !.locked_cells = Append(@, cell)],
          raised |-> "none", value |-> TRUE]

\* GameState.lock_cell
lock_cell(s, cell) ==
    IF ~ ValidPosition(cell)
    THEN [state |-> s, raised |-> "ValueError", value |-> FALSE]
    ELSE IF cell \notin Range(s.locked_cells)
    THEN [state |-> [s EXCEPT !.locked_cells = Append(@, cell)],
          raised |-> "none", value |-> TRUE]
    ELSE [state |-> s, raised |-> "none", value |-> FALSE]

\* GameState.is_cell_locked for a valid position
is_cell_locked(s, cell) == cell \in Range(s.locked_cells)

\* ---------------------------------------------------- game-state inputs
\* The cells the callers edit, lock and unlock, and two positions off the
\* board.
SESSION_SPAN == 2

SessionCells == {p \in Cells : RowMajor(p) < SESSION_SPAN} \cup {<<1, 1>>}

OffBoard == {<<-1, 0>>, <<0, BOARD_SIZE>>}

\* The boards a GameState is constructed on.
SessionBoards ==
    LET one == Place(EmptyBoard, 0, 0, 1)
    IN  {EmptyBoard, one, Place(EmptyBoard, 0, 1, 2), Place(one, 0, 1, 2)}

\* Start times with and without a microsecond part.
StartTimes == {[sec |-> 7, micro |-> 0], [sec |-> 7, micro |-> 5]}

SessionFrame ==
    UNCHANGED <<impl, pc, given, board, stack, result, solution, target_clues,
                removed, attempts, difficulty, limit_arg, solution_count,
                games, scores, file, threads>>

\* GameState(board=b, difficulty="easy", start_time=t, hints_used=h)
Construct(b, t, h) ==
    /\ session = NoSession
    /\ session' = GameState(b, "easy", t, h, <<>>, FALSE)
    /\ call' = [op |-> "GameState"]
    /\ report' = NoReport
    /\ err' = "none"
    /\ SessionFrame

\* state.board[row][col] = v, with is_complete set as the caller keeps it
EditBoard(cell, v) ==
    /\ session # NoSession
    /\ LET b == Place(session.board, cell[1], cell[2], v)
       IN  session' = [session EXCEPT !.board = b,
                                      !.is_complete = (EmptyCells(b) = {})]
    /\ call' = [op |-> "edit", cell |-> cell, value |-> v]
    /\ report' = NoReport
    /\ err' = "none"
    /\ SessionFrame

LockCell(cell) ==
    /\ session # NoSession
    /\ LET r == lock_cell(session, cell)
       IN  /\ session' = r.state
           /\ err' = r.raised
           /\ report' = [op |-> "lock_cell", value |-> r.value]
    /\ call' = [op |-> "lock_cell", cell |-> cell]
    /\ SessionFrame

UnlockCell(cell) ==
    /\ session # NoSession
    /\ LET r == unlock_cell(session, cell)
       IN  /\ session' = r.state
           /\ err' = r.raised
           /\ report' = [op |-> "unlock_cell", value |-> r.value]
    /\ call' = [op |-> "unlock_cell", cell |-> cell]
    /\ SessionFrame

\* GameState.from_dict(state.to_dict())
RoundTrip ==
    /\ session # NoSession
    /\ call' = [op |-> "from_dict"]
    /\ report' = [op |-> "from_dict", state |-> from_dict(to_dict(session))]
    /\ err' = "none"
    /\ UNCHANGED session
    /\ SessionFrame

\* state.copy()
Copy ==
    /\ session # NoSession
    /\ call' = [op |-> "copy"]
    /\ report' = [op |-> "copy", state |-> copy(session)]
    /\ err' = "none"
    /\ UNCHANGED session
    /\ SessionFrame

SessionInit ==
    /\ impl = "domain"
    /\ pc = "session"
    /\ given = NoGrid
    /\ board = NoGrid
    /\ stack = <<>>
    /\ result = "none"
    /\ solution = NoGrid
    /\ target_clues = 0
    /\ removed = 0
    /\ attempts = 0
    /\ err = "none"
    /\ difficulty = "none"
    /\ limit_arg = 0
    /\ solution_count = 0
    /\ games = NoGames
    /\ call = NoCall
    /\ report = NoReport
    /\ ModelsInit

SessionNext ==
    \/ \E b \in SessionBoards, t \in StartTimes, h \in {0, 1} : Construct(b, t, h)
    \/ \E cell \in SessionCells, v \in {EMPTY, 1} : EditBoard(cell, v)
    \/ \E cell \in SessionCells \cup OffBoard : LockCell(cell)
    \/ \E cell \in SessionCells \cup OffBoard : UnlockCell(cell)
    \/ RoundTrip
    \/ Copy

SpecSession == SessionInit /\ [][SessionNext]_vars

\* ------------------------------------------------------ game-state claims
\* The six fields of two game states are equal.
SameFields(a, b) ==
    /\ a.board = b.board
    /\ a.difficulty = b.difficulty
    /\ a.start_time = b.start_time
    /\ a.hints_used = b.hints_used
    /\ a.is_complete = b.is_complete
    /\ a.locked_cells = b.locked_cells

\* C22: the state from_dict builds from to_dict's dictionary equals the
\* state it was taken from in board, difficulty, start_time, hints_used,
\* is_complete and locked_cells.
C22_RoundTripEqual ==
    (call.op = "from_dict") => SameFields(report.state, session)

\* C23: the state copy() returns equals the state it was taken from in
\* board, difficulty, start_time, hints_used, locked_cells and is_complete.
C23_CopyEqual ==
    (call.op = "copy") => SameFields(session, report.state)

\* C24: lock_cell on a valid position returns True iff the cell was not
\* locked and leaves it locked; unlock_cell returns True iff it was locked
\* and leaves it unlocked; neither changes whether any other cell is
\* locked.
C24_LockUnlock ==
    [][ (call'.op \in {"lock_cell", "unlock_cell"} /\ err' = "none") =>
          LET cell == call'.cell
          IN  /\ call'.op = "lock_cell" =>
                    /\ report'.value = ~ is_cell_locked(session, cell)
                    /\ is_cell_locked(session', cell)
              /\ call'.op = "unlock_cell" =>
                    /\ report'.value = is_cell_locked(session, cell)
                    /\ ~ is_cell_locked(session', cell)
              /\ \A other \in Cells \ {cell} :
                    is_cell_locked(session', other) = is_cell_locked(session, other)
      ]_vars

\* C24 witness: unlock_cell has returned True for a cell locked at
\* creation, the other cell locked at creation staying locked.
C24_Witness ==
    /\ call.op = "unlock_cell" /\ err = "none" /\ report.value
    /\ call.cell = <<0, 0>>
    /\ session.board[0][0] # EMPTY
    /\ session.locked_cells = <<<<0, 1>>>>

\* ===================================================== models/scoreboard.py
\* Score.__post_init__: the four tests, each raising ValueError.
ValidScore(name, time, level, hints) ==
    /\ name # ""
    /\ ~ (time < 0)
    /\ ~ (hints < 0)
    /\ level \in {"easy", "medium", "hard", "expert"}

\* The same writing the date without its microsecond.
MutScoreToDict(score) ==
    [name |-> score.name, time |-> score.time, difficulty |-> score.difficulty,
     hints |-> score.hints, date |-> <<score.date.sec>>]

\* Score.to_dict
Score_to_dict(score) ==
    [name |-> score.name, time |-> score.time, difficulty |-> score.difficulty,
     hints |-> score.hints, date |-> isoformat(score.date)]

\* Score.from_dict (the dictionaries read back were written from valid
\* scores, so the constructor's tests pass)
Score_from_dict(data) ==
    [name |-> data.name, time |-> data.time, difficulty |-> data.difficulty,
     hints |-> data.hints, date |-> fromisoformat(data.date)]

\* Scoreboard.save_to_localStorage: the file holds the JSON list of the
\* scores' dictionaries.
save_to_localStorage(list) ==
    <<"json", [i \in 1 .. Len(list) |-> Score_to_dict(list[i])]>>

\* Scoreboard.load_from_localStorage: no score when the file does not
\* exist, the scores of the dictionaries read otherwise.
load_from_localStorage(f) ==
    IF f = NoFile
    THEN <<>>
    ELSE [i \in 1 .. Len(f[2]) |-> Score_from_dict(f[2][i])]

\* ---------------------------------------------------- scoreboard inputs
\* The longest score list an add_score is made on.
MAX_SCORES == 2

ScoreNames == {"", "Alice"}
ScoreTimes == {-10, 300}
ScoreLevels == {"medium", "invalid"}
ScoreHints == {-1, 0, 2}

\* datetime.now() at the calls, with and without a microsecond part.
Clock == {[sec |-> 1, micro |-> 0], [sec |-> 1, micro |-> 250]}

ScoreFrame ==
    UNCHANGED <<impl, pc, given, board, stack, result, solution, target_clues,
                removed, attempts, difficulty, limit_arg, solution_count,
                games, session, threads>>

\* Scoreboard.add_score(name, time, difficulty, hints), now the clock's
\* reading: Score(...) raises before the append and the save.
AddScore(name, time, level, hints, now) ==
    /\ Len(scores) <= MAX_SCORES
    /\ call' = [op |-> "add_score", name |-> name, time |-> time,
                difficulty |-> level, hints |-> hints]
    /\ IF ~ ValidScore(name, time, level, hints)
       THEN /\ err' = "ValueError"
            /\ report' = NoReport
            /\ UNCHANGED <<scores, file>>
       ELSE LET score == [name |-> name, time |-> time, difficulty |-> level,
                          hints |-> hints, date |-> now]
            IN  /\ scores' = Append(scores, score)
                /\ file' = save_to_localStorage(scores')
                /\ err' = "none"
                /\ report' = [op |-> "add_score", score |-> score]
    /\ ScoreFrame

\* Scoreboard.clear_all
ClearAll ==
    /\ call' = [op |-> "clear_all"]
    /\ scores' = <<>>
    /\ file' = save_to_localStorage(scores')
    /\ err' = "none"
    /\ report' = NoReport
    /\ ScoreFrame

\* Scoreboard(storage_path) on the same path: a new object, whose scores
\* are the ones __init__ loads.
Reopen ==
    /\ call' = [op |-> "Scoreboard"]
    /\ scores' = load_from_localStorage(file)
    /\ err' = "none"
    /\ report' = NoReport
    /\ UNCHANGED file
    /\ ScoreFrame

ScoreInit ==
    /\ impl = "domain"
    /\ pc = "scoreboard"
    /\ given = NoGrid
    /\ board = NoGrid
    /\ stack = <<>>
    /\ result = "none"
    /\ solution = NoGrid
    /\ target_clues = 0
    /\ removed = 0
    /\ attempts = 0
    /\ err = "none"
    /\ difficulty = "none"
    /\ limit_arg = 0
    /\ solution_count = 0
    /\ games = NoGames
    /\ call = NoCall
    /\ report = NoReport
    /\ ModelsInit

ScoreNext ==
    \/ \E name \in ScoreNames, time \in ScoreTimes, level \in ScoreLevels,
          hints \in ScoreHints, now \in Clock : AddScore(name, time, level, hints, now)
    \/ ClearAll
    \/ Reopen

SpecScore == ScoreInit /\ [][ScoreNext]_vars

Threads == {"t1", "t2"}

\* A thread between calls, with the outcome of its last call.
Idle(op, game_id, raised, value) ==
    [pc |-> "idle", op |-> op, game_id |-> game_id, raised |-> raised, value |-> value]

\* The game states the threads save.
RepoStates ==
    {NewGameState(id, <<PatternGrid, PatternGrid>>) : id \in GameIds}

RepoFrame ==
    UNCHANGED <<impl, pc, given, board, stack, result, solution, target_clues,
                removed, attempts, err, difficulty, limit_arg, solution_count,
                call, report, session, scores, file>>

\* repository.save(game_id, state): self._games[game_id] = state
RepoSave(t, game_id, st) ==
    /\ threads[t].pc = "idle"
    /\ games' = Save(game_id, st)
    /\ threads' = [threads EXCEPT ![t] = Idle("save", game_id, "none", "None")]
    /\ RepoFrame

\* repository.load(game_id): self._games.get(game_id)
RepoLoad(t, game_id) ==
    /\ threads[t].pc = "idle"
    /\ threads' = [threads EXCEPT ![t] = Idle("load", game_id, "none", Load(game_id))]
    /\ UNCHANGED games
    /\ RepoFrame

\* repository.exists(game_id): game_id in self._games
RepoExists(t, game_id) ==
    /\ threads[t].pc = "idle"
    /\ threads' = [threads EXCEPT ![t] =
                      Idle("exists", game_id, "none", game_id \in DOMAIN games)]
    /\ UNCHANGED games
    /\ RepoFrame

\* repository.delete(game_id), first step: `if game_id in self._games`
RepoDeleteTest(t, game_id) ==
    /\ threads[t].pc = "idle"
    /\ threads' = [threads EXCEPT ![t] =
                      IF game_id \in DOMAIN games
                      THEN [pc |-> "del", op |-> "delete", game_id |-> game_id,
                            raised |-> "none", value |-> "None"]
                      ELSE Idle("delete", game_id, "none", "None")]
    /\ UNCHANGED games
    /\ RepoFrame

\* repository.delete(game_id), second step: `del self._games[game_id]`,
\* which raises KeyError when the key is not there.
RepoDeleteDel(t) ==
    /\ threads[t].pc = "del"
    /\ LET game_id == threads[t].game_id
       IN  IF game_id \in DOMAIN games
           THEN /\ games' = [id \in DOMAIN games \ {game_id} |-> games[id]]
                /\ threads' = [threads EXCEPT ![t] = Idle("delete", game_id, "none", "None")]
           ELSE /\ UNCHANGED games
                /\ threads' = [threads EXCEPT ![t] = Idle("delete", game_id, "KeyError", "None")]
    /\ RepoFrame

RepoInit ==
    /\ impl = "domain"
    /\ pc = "repository"
    /\ given = NoGrid
    /\ board = NoGrid
    /\ stack = <<>>
    /\ result = "none"
    /\ solution = NoGrid
    /\ target_clues = 0
    /\ removed = 0
    /\ attempts = 0
    /\ err = "none"
    /\ difficulty = "none"
    /\ limit_arg = 0
    /\ solution_count = 0
    /\ games = NoGames
    /\ call = NoCall
    /\ report = NoReport
    /\ session = NoSession
    /\ scores = <<>>
    /\ file = NoFile
    /\ threads = [t \in Threads |-> Idle("none", "none", "none", "None")]

RepoNext ==
    \E t \in Threads :
        \/ \E id \in GameIds, st \in RepoStates : RepoSave(t, id, st)
        \/ \E id \in GameIds : RepoLoad(t, id)
        \/ \E id \in GameIds : RepoExists(t, id)
        \/ \E id \in GameIds : RepoDeleteTest(t, id)
        \/ RepoDeleteDel(t)

SpecRepo == RepoInit /\ [][RepoNext]_vars

\* ------------------------------------------------------ repository claim
\* C26: under any interleaving of the threads' save, load, delete and
\* exists calls no call raises, and a delete takes effect as if it ran
\* atomically: the key it found is still there when it removes it.
C26_ThreadSafe ==
    \A t \in DOMAIN threads :
        /\ threads[t].raised = "none"
        /\ threads[t].pc = "del" => threads[t].game_id \in DOMAIN games

\* ============================================ adapters/incoming (GET /new)
\* A query parameter is <<>> when request.args.get returns None and <<v>>
\* when it returns the text v; a clues text is given by the integer it
\* reads as.
NoArg == <<>>

\* NewGameRequest.from_args(clues_arg, difficulty_arg), draw the value of
\* random.randint: the clue count of the request, or the ValidationError
\* the ValueError of either branch is turned into. The difficulty branch
\* is tested first.
from_args(clues_arg, difficulty_arg, draw) ==
    IF difficulty_arg # NoArg
    THEN IF difficulty_arg[1] \notin DOMAIN DIFFICULTY_LEVELS
         THEN [raised |-> "ValidationError", clues |-> 0]
         ELSE [raised |-> "none", clues |-> draw]
    ELSE IF clues_arg # NoArg
    THEN IF ~ InClueRange(clues_arg[1])
         THEN [raised |-> "ValidationError", clues |-> 0]
         ELSE [raised |-> "none", clues |-> clues_arg[1]]
    ELSE [raised |-> "none", clues |-> draw]

\* The range random.randint draws from in from_args.
DrawRange(difficulty_arg) ==
    LET level == IF difficulty_arg # NoArg /\ difficulty_arg[1] \in DOMAIN DIFFICULTY_LEVELS
                 THEN difficulty_arg[1]
                 ELSE "medium"
    IN  DIFFICULTY_LEVELS[level][1] .. DIFFICULTY_LEVELS[level][2]

\* What puzzle_generator.generate(clues) returns for a clue count in
\* range, up to the choice of the cells: a solved grid and that grid with
\* all but `clues` cells cleared.
GeneratedPair(clues) ==
    <<Blanked(PatternGrid, {p \in Cells : RowMajor(p) < NUM_CELLS - clues}), PatternGrid>>

\* The query parameters of the requests.
CluesArgs == {NoArg, <<MIN_CLUES - 1>>, <<MIN_CLUES>>, <<MAX_CLUES - 1>>, <<MAX_CLUES + 1>>}
DifficultyArgs == {NoArg, <<"easy">>, <<"hard">>, <<"extreme">>}

\* GET /new?clues=..&difficulty=.. under game id game_id (a fresh uuid4):
\* 400 on a ValidationError, otherwise the game is started and the puzzle
\* returned with 200.
NewGame(clues_arg, difficulty_arg, draw, game_id) ==
    /\ game_id \notin DOMAIN games
    /\ draw \in DrawRange(difficulty_arg)
    /\ call' = [op |-> "GET /new", clues |-> clues_arg, difficulty |-> difficulty_arg]
    /\ LET req == from_args(clues_arg, difficulty_arg, draw)
       IN  IF req.raised # "none"
           THEN /\ err' = req.raised
                /\ report' = [op |-> "GET /new", status |-> 400, code |-> "VALIDATION_ERROR"]
                /\ UNCHANGED <<games, board>>
           ELSE LET pair == GeneratedPair(req.clues)
                IN  /\ games' = Save(game_id, NewGameState(game_id, pair))
                    /\ err' = "none"
                    /\ board' = pair[1]
                    /\ report' = [op |-> "GET /new", status |-> 200,
                                  puzzle |-> pair[1], game_id |-> game_id]
    /\ SvcFrame

HttpNext ==
    \E clues_arg \in CluesArgs, difficulty_arg \in DifficultyArgs, game_id \in GameIds :
        \E draw \in DrawRange(difficulty_arg) : NewGame(clues_arg, difficulty_arg, draw, game_id)

SpecHttp == SvcInit /\ [][HttpNext]_vars

\* -------------------------------------------------------- GET /new claim
\* C27: a GET /new carrying both clues and difficulty follows clues: a
\* clues value in range is answered 200 with a puzzle of that many clues,
\* and one out of range is answered 400.
C27_CluesOverrideDifficulty ==
    [][ (/\ call'.op = "GET /new"
         /\ call'.clues # NoArg
         /\ call'.difficulty # NoArg) =>
            IF InClueRange(call'.clues[1])
            THEN /\ report'.status = 200
                 /\ ClueCount(report'.puzzle) = call'.clues[1]
            ELSE report'.status = 400
      ]_vars

\* ------------------------------------------------------------ filler frame
\* C28: while the backtracking filler runs and after it has returned, every
\* cell that was not empty in the grid it was given holds the value it was
\* given with; and when it has returned False the grid is cell for cell
\* the grid it was given.
C28_FillFrame ==
    (pc \in {"fill_call", "fill_loop", "fill_done"}) =>
        /\ \A p \in Cells :
              given[p[1]][p[2]] # EMPTY => board[p[1]][p[2]] = given[p[1]][p[2]]
        /\ result = "False" => board = given

\* C28 witness: the filler has returned False on a grid whose first empty
\* cell has candidates, so that it placed values and took them back.
C28_Witness ==
    /\ pc = "fill_done" /\ result = "False"
    /\ board = given
    /\ LET p == FirstEmpty(given)
       IN  \E n \in Digits : SafeOf(impl, given, p[1], p[2], n)

\* ================================================= the legality predicates
\* The same without the box test.
MutValidateMove(b, row, col, num) ==
    IF ~ (0 <= row /\ row < BOARD_SIZE /\ 0 <= col /\ col < BOARD_SIZE)
    THEN [raised |-> "ValueError", value |-> FALSE]
    ELSE IF ~ (1 <= num /\ num <= BOARD_SIZE)
    THEN [raised |-> "ValueError", value |-> FALSE]
    ELSE IF b[row][col] # EMPTY
    THEN [raised |-> "ValueError", value |-> FALSE]
    ELSE [raised |-> "none",
          value |-> is_safe_in_row(b, row, num) /\ is_safe_in_column(b, col, num)]

\* domain validate_move(board, row, col, num): ValueError for a position
\* or a number out of range or a cell that is not empty, is_safe otherwise.
validate_move(b, row, col, num) ==
    IF ~ (0 <= row /\ row < BOARD_SIZE /\ 0 <= col /\ col < BOARD_SIZE)
    THEN [raised |-> "ValueError", value |-> FALSE]
    ELSE IF ~ (1 <= num /\ num <= BOARD_SIZE)
    THEN [raised |-> "ValueError", value |-> FALSE]
    ELSE IF b[row][col] # EMPTY
    THEN [raised |-> "ValueError", value |-> FALSE]
    ELSE [raised |-> "none", value |-> is_safe(b, row, col, num)]

\* The four predicates called on the same grid, position in range and
\* value in range: what each returned.
LegalityCalls(row, col, num) ==
    /\ pc = "val_idle"
    /\ call' = [op |-> "legality", row |-> row, col |-> col, num |-> num]
    /\ report' = [op |-> "legality",
                  is_valid_move |-> is_valid_move(board, row, col, num).is_valid,
                  is_safe |-> is_safe(board, row, col, num),
                  validate_move |-> validate_move(board, row, col, num),
                  _is_safe |-> GenIsSafe(board, row, col, num)]
    /\ pc' = "val_returned"
    /\ UNCHANGED <<impl, given, board, stack, result, solution, target_clues,
                   removed, attempts, err, difficulty, limit_arg, solution_count, games, models>>

MoveNext == \E row \in Idx, col \in Idx, num \in Digits : LegalityCalls(row, col, num)

SpecMove == ValInit /\ [][MoveNext]_vars

\* C29: on every grid, for every position in range whose cell is empty and
\* every value in range, is_valid_move(...).is_valid, domain is_safe,
\* domain validate_move and SudokuGenerator._is_safe return the same truth
\* value, validate_move raising nothing.
C29_PredicatesAgree ==
    (call.op = "legality" /\ board[call.row][call.col] = EMPTY) =>
        /\ report.validate_move.raised = "none"
        /\ report.is_valid_move = report.is_safe
        /\ report.is_safe = report.validate_move.value
        /\ report.validate_move.value = report._is_safe

\* C29 witness: the four have been called on an empty cell whose row and
\* column are free of the value while its box holds it, and all four
\* refused.
C29_Witness ==
    /\ call.op = "legality" /\ board[call.row][call.col] = EMPTY
    /\ is_safe_in_row(board, call.row, call.num)
    /\ is_safe_in_column(board, call.col, call.num)
    /\ ~ report.is_valid_move /\ ~ report.is_safe
    /\ ~ report.validate_move.value /\ ~ report._is_safe

====
